---- MODULE Spec2Model ----
(***************************************************************************)
(* magdl: the peer wire codec (peer_codec.rs), the message types           *)
(* (peer_message.rs), the peer sessions sharing a registry under a         *)
(* read/write lock (main.rs), the UDP tracker client (tracker_stream.rs)   *)
(* and the channel-driven peer session over a framed TCP connection        *)
(* (peer_connection.rs, connection.rs).                                    *)
(***************************************************************************)
EXTENDS Integers, Sequences, FiniteSets, TLC

VARIABLES
    \* ---- main.rs: the shared registry and its lock ----
    peer_channels,  \* Shared.peer_channels: address -> sender handle
    peer_state,     \* Shared.peer_state: address -> PeerState
    writer,         \* the task holding the RwLock write guard, or NoTask
    readers,        \* the tasks holding an RwLock read guard
    \* ---- main.rs: one peer_process task per address ----
    pc,             \* position of each peer_process task
    rbuf,           \* bytes received from the remote and not yet decoded
    sock,           \* what the remote did to the connection
    wire,           \* bytes written to the remote
    msg,            \* the PeerMessage being handled
    ret,            \* the result peer_process returns after cleanup
    rx_alive,       \* the session still owns the receiver of its channel
    events,         \* what all remotes did so far: frames sent, closes, resets
    first,          \* what the first framed.next() of each session returned
    consumed,       \* the wire bytes of the frame the session is handling
    \* ---- main.rs: the status loop ----
    main_pc,
    main_peers,     \* `peers` read by the status loop in this iteration
    \* ---- peer_codec.rs driven on a byte stream ----
    cin,            \* the frames whose encodings make up the stream
    cstream,        \* bytes of the stream not yet appended to the buffer
    cbuf,           \* the codec's buffer
    cout,           \* frames decoded so far
    clast,          \* the last call of PeerCodec::decode
    cphase,         \* "read": append bytes next, "decode": decode next
    cbytewise,      \* every append so far delivered a single byte
    \* ---- tracker_stream.rs: Trackers::new, then Trackers::announce ----
    tphase,         \* "new", "announce", "returned", or "panicked"
    tpc,            \* position of the connect, then announce, future of each tracker
    ttx,            \* request.transaction_id of the operation in progress
    tout,           \* the datagrams sent to each tracker
    telapsed,       \* seconds since the timeout of the operation was started
    tbuf,           \* bytes_recv: the bytes written to it so far
    trecv,          \* the datagram the operation took from the tracker's address
    taliens,        \* datagrams from other addresses the operation discarded
    resolved,       \* Trackers::new: the results, in completion order
    connections,    \* Trackers.connections
    aresolved,      \* Trackers::announce: the Ok responses, in completion order
    announced,      \* the Vec<SocketAddr> Trackers::announce returned
    \* ---- main.rs: the channel whose sender Peer::new stores ----
    chan,           \* messages sent on each peer's sender and not received
    \* ---- peer_connection.rs, connection.rs: one PeerConnection ----
    conn_addr,      \* PeerConnection.addr
    conn_pc,        \* position of the task running connect, handle_messages
    conn_ret,       \* the error handle_messages returned
    read_buf,       \* TcpConnection.read_buf[..r_cur]; the rest is zeroes
    r_cur,          \* TcpConnection.r_cur
    read_len,       \* TcpConnection.read_buf.len()
    net_in,         \* bytes the remote sent that no read has taken yet
    net_state,      \* what the remote did to the connection
    ready,          \* the read readiness tokio holds for the socket
    net_out,        \* bytes written to the remote
    inbox,          \* the messages sent on PeerConnection.sender
    outbox,         \* the messages waiting in PeerConnection.receiver
    tx_alive,       \* the coordinator holds the sender of that channel
    out_sent,       \* every message the coordinator sent on it
    rframes,        \* the frames the remote has sent, the last maybe in part
    rpending,       \* the bytes of the last frame the remote has yet to send
    conn_events,    \* what the remote did so far: sends, close, reset
    \* ---- codec.rs: one Framed stream and the loop that consumes it ----
    framed_bytes,   \* every byte the transport holds for the stream
    framed_inner,   \* Framed.inner: the bytes the transport has yet to give
    framed_read,    \* Framed.read
    framed_out,     \* the frames poll_next has yielded
    framed_pc,      \* "next": the consumer polls; "ended": it got None
    framed_end,     \* why poll_next returned None
    \* ---- main.rs: the sessions main spawns from the announce result ----
    sp_pc,          \* "announce", "spawn", or "run"
    sp_resolved,    \* the Ok responses Trackers::announce collected
    sp_peers,       \* `peers`: what Trackers::announce returned
    sp_next,        \* the element of peers the for loop is at
    sp_tasks,       \* the tasks spawned: the address and position of each
    sp_registry     \* peer_channels: address -> the task whose sender it holds

vars == <<peer_channels, peer_state, writer, readers, pc, rbuf, sock, wire,
          msg, ret, rx_alive, events, first, consumed, main_pc, main_peers,
          cin, cstream, cbuf, cout, clast, cphase, cbytewise,
          tphase, tpc, ttx, tout, telapsed, tbuf, trecv, taliens, resolved,
          connections, aresolved, announced, chan,
          conn_addr, conn_pc, conn_ret, read_buf, r_cur, read_len, net_in,
          net_state, ready, net_out, inbox, outbox, tx_alive, out_sent,
          rframes, rpending, conn_events,
          framed_bytes, framed_inner, framed_read, framed_out, framed_pc,
          framed_end,
          sp_pc, sp_resolved, sp_peers, sp_next, sp_tasks, sp_registry>>

sessionVars == <<peer_channels, peer_state, writer, readers, pc, rbuf, sock,
                 wire, msg, ret, rx_alive, events, first, consumed,
                 main_pc, main_peers>>

codecVars == <<cin, cstream, cbuf, cout, clast, cphase, cbytewise>>

trackerVars == <<tphase, tpc, ttx, tout, telapsed, tbuf, trecv, taliens,
                 resolved, connections, aresolved, announced>>

connVars == <<conn_addr, conn_pc, conn_ret, read_buf, r_cur, read_len, net_in,
              net_state, ready, net_out, inbox, outbox, tx_alive, out_sent,
              rframes, rpending, conn_events>>

framedVars == <<framed_bytes, framed_inner, framed_read, framed_out, framed_pc,
                framed_end>>

spawnVars == <<sp_pc, sp_resolved, sp_peers, sp_next, sp_tasks, sp_registry>>

\* The variables of codec.rs and of the spawn loop
otherVars == <<framedVars, spawnVars>>

----------------------------------------------------------------------------
(* Bounds *)

\* Frames sent, closes and resets by the remotes in one run, all peers together.
MaxEvents == 3
\* Frames a remote has sent that its session has not taken from the stream yet.
MaxInFlight == 1
\* Longest payload of a data frame given to the codec.
MaxPayloadLen == 64
\* Datagrams from other addresses that one tracker operation discards.
MaxAliens == 1

----------------------------------------------------------------------------
(* Bytes *)

Fill(n, b) == [i \in 1..n |-> b]

Drop(s, n) == SubSeq(s, n + 1, Len(s))

Take(s, n) == SubSeq(s, 1, n)

\* BufMut::put_u32: big-endian
PutU32(n) == << (n \div 16777216) % 256, (n \div 65536) % 256,
                (n \div 256) % 256, n % 256 >>

\* Buf::get_u32 / BigEndian::read_u32 on the first four bytes
ReadU32(b) == b[1] * 16777216 + b[2] * 65536 + b[3] * 256 + b[4]

\* "BitTorrent protocol"
BITTORRENT_PROTOCOL ==
    <<66, 105, 116, 84, 111, 114, 114, 101, 110, 116, 32,
      112, 114, 111, 116, 111, 99, 111, 108>>

HandshakeLen == 68
PstrLen == 19
ReservedLen == 8
HashLen == 20

----------------------------------------------------------------------------
(* peer_codec.rs *)

NoFrame == [kind |-> "None"]

HandshakeFrame(pstr, info_hash, peer_id) ==
    [kind |-> "Handshake", pstr |-> pstr, info_hash |-> info_hash,
     peer_id |-> peer_id]

DataFrame(message_id, payload) ==
    [kind |-> "Data", message_id |-> message_id, payload |-> payload]

\* Result<Option<frame>>: res is "some", "none" or "err"; buf is the buffer
\* the call leaves behind.
Decoded(res, frame, buf) == [res |-> res, frame |-> frame, buf |-> buf]

\* Handshake::decode taking the peer_id before the info_hash
HandshakeDecodeSwapped(bytes) ==
    IF Len(bytes) < HandshakeLen
    THEN Decoded("none", NoFrame, bytes)
    ELSE LET pstrlen == bytes[1]
             pstr    == SubSeq(bytes, 2, 1 + pstrlen)
             rest    == Drop(bytes, 1 + pstrlen + ReservedLen)
         IN  IF pstrlen # PstrLen
             THEN Decoded("err", NoFrame, bytes)
             ELSE IF pstr # BITTORRENT_PROTOCOL
             THEN Decoded("err", NoFrame, bytes)
             ELSE Decoded("some",
                          HandshakeFrame(pstr,
                                         SubSeq(rest, HashLen + 1, 2 * HashLen),
                                         Take(rest, HashLen)),
                          Drop(rest, 2 * HashLen))

\* Handshake::decode asking for more than the 68 bytes of a handshake
HandshakeDecodeOver68(bytes) ==
    IF Len(bytes) < HandshakeLen + 1
    THEN Decoded("none", NoFrame, bytes)
    ELSE LET pstrlen == bytes[1]
             pstr    == SubSeq(bytes, 2, 1 + pstrlen)
             rest    == Drop(bytes, 1 + pstrlen + ReservedLen)
         IN  IF pstrlen # PstrLen
             THEN Decoded("err", NoFrame, bytes)
             ELSE IF pstr # BITTORRENT_PROTOCOL
             THEN Decoded("err", NoFrame, bytes)
             ELSE Decoded("some",
                          HandshakeFrame(pstr, Take(rest, HashLen),
                                         SubSeq(rest, HashLen + 1, 2 * HashLen)),
                          Drop(rest, 2 * HashLen))

\* Handshake::decode
HandshakeDecode(bytes) ==
    IF Len(bytes) < HandshakeLen
    THEN Decoded("none", NoFrame, bytes)
    ELSE LET pstrlen == bytes[1]
             pstr    == SubSeq(bytes, 2, 1 + pstrlen)
             rest    == Drop(bytes, 1 + pstrlen + ReservedLen)
         IN  IF pstrlen # PstrLen
             THEN Decoded("err", NoFrame, bytes)
             ELSE IF pstr # BITTORRENT_PROTOCOL
             THEN Decoded("err", NoFrame, bytes)
             ELSE Decoded("some",
                          HandshakeFrame(pstr, Take(rest, HashLen),
                                         SubSeq(rest, HashLen + 1, 2 * HashLen)),
                          Drop(rest, 2 * HashLen))

\* Handshake::encode
HandshakeEncode(h) ==
    <<Len(h.pstr) % 256>> \o h.pstr \o Fill(ReservedLen, 0)
        \o h.info_hash \o h.peer_id

\* Data::decode taking message_len for the length of the payload alone
DataDecodeLenIsPayload(bytes) ==
    IF Len(bytes) < 4
    THEN Decoded("none", NoFrame, bytes)
    ELSE LET message_len == ReadU32(bytes)
             rest        == Drop(bytes, 4)
         IN  IF message_len = 0
             THEN Decoded("some", DataFrame(0, <<>>), rest)
             ELSE IF Len(rest) < message_len + 1
             THEN Decoded("none", NoFrame, bytes)
             ELSE Decoded("some",
                          DataFrame(rest[1], SubSeq(rest, 2, message_len + 1)),
                          Drop(rest, message_len + 1))

\* Data::decode
DataDecode(bytes) ==
    IF Len(bytes) < 4
    THEN Decoded("none", NoFrame, bytes)
    ELSE LET message_len == ReadU32(bytes)
             rest        == Drop(bytes, 4)
         IN  IF message_len = 0
             THEN Decoded("some", DataFrame(0, <<>>), rest)
             ELSE IF Len(rest) < message_len
             THEN Decoded("none", NoFrame, bytes)
             ELSE Decoded("some",
                          DataFrame(rest[1], SubSeq(rest, 2, message_len)),
                          Drop(rest, message_len))

\* Data::encode (`message_len as u32` truncates only from 2^32 on, which no
\* payload of the model reaches)
DataEncode(d) ==
    PutU32(1 + Len(d.payload)) \o <<d.message_id>> \o d.payload

\* PeerCodec::decode (Data::decode never fails)
PeerCodecDecode(buf) ==
    LET d == DataDecode(buf)
    IN  IF d.res = "some" THEN d ELSE HandshakeDecode(buf)

\* PeerCodec::decode_eof; "end" is Ok(None): the stream ends
PeerCodecDecodeEof(buf) ==
    LET r == PeerCodecDecode(buf)
    IN  IF r.res # "none" THEN r
        ELSE IF buf = <<>> THEN Decoded("end", NoFrame, buf)
        ELSE Decoded("err", NoFrame, buf)

\* PeerCodec::encode
PeerCodecEncode(item) ==
    IF item.kind = "Data" THEN DataEncode(item) ELSE HandshakeEncode(item)

----------------------------------------------------------------------------
(* peer_message.rs *)

MessageTypes ==
    <<"Choke", "Unchoke", "Interested", "NotInterested", "Have", "Bitfield",
      "Request", "Piece", "Cancel", "Port">>

\* impl From<u8> for PeerMessageType; "panic" is the panic!() arm
FromU8(value) ==
    IF value \in 0..9 THEN MessageTypes[value + 1] ELSE "panic"

PeerMessage(message_type, payload) ==
    [message_type |-> message_type, payload |-> payload]

NoMsg == PeerMessage("None", <<>>)

----------------------------------------------------------------------------
(* main.rs: the shared state *)

Addrs == {"p1", "p2"}

Tasks == Addrs \cup {"main"}

NoTask == "none"

\* magnet.info_hash of the link in main()
LocalInfoHash == Fill(HashLen, 17)

\* Shared::new: "-WM0001-" followed by 12 random bytes, drawn once
LocalPeerId == <<45, 87, 77, 48, 48, 48, 49, 45>> \o Fill(12, 9)

LocalHandshake ==
    HandshakeFrame(BITTORRENT_PROTOCOL, LocalInfoHash, LocalPeerId)

\* PeerState::default with am_choked starting false
DefaultPeerStateUnchoked ==
    [choked |-> TRUE, interested |-> FALSE, am_choked |-> FALSE,
     am_interested |-> FALSE, bitfield |-> <<>>]

\* PeerState::default
DefaultPeerState ==
    [choked |-> TRUE, interested |-> FALSE, am_choked |-> TRUE,
     am_interested |-> FALSE, bitfield |-> <<>>]

EmptyMap == [a \in {} |-> NoTask]

\* HashMap::insert
MapInsert(m, k, v) ==
    [x \in DOMAIN m \cup {k} |-> IF x = k THEN v ELSE m[x]]

\* HashMap::remove
MapRemove(m, k) == [x \in DOMAIN m \ {k} |-> m[x]]

\* What the first match of peer_process looks at in the result of
\* framed.next(): Some/None/Err, the variant of the frame, its info_hash
FirstResult(r) ==
    [res |-> r.res, kind |-> r.frame.kind,
     info_hash |-> IF r.frame.kind = "Handshake" THEN r.frame.info_hash
                   ELSE <<>>]

\* framed.next() has not returned yet
NoResult == FirstResult(Decoded("pending", NoFrame, <<>>))

SessionInit ==
    /\ peer_channels = EmptyMap
    /\ peer_state = EmptyMap
    /\ writer = NoTask
    /\ readers = {"main"}
    /\ pc = [a \in Addrs |-> "start"]
    /\ rbuf = [a \in Addrs |-> <<>>]
    /\ sock = [a \in Addrs |-> "open"]
    /\ wire = [a \in Addrs |-> <<>>]
    /\ msg = [a \in Addrs |-> NoMsg]
    /\ ret = [a \in Addrs |-> "none"]
    /\ rx_alive = [a \in Addrs |-> FALSE]
    /\ events = 0
    /\ first = [a \in Addrs |-> NoResult]
    /\ consumed = [a \in Addrs |-> <<>>]
    /\ main_pc = "spawn"
    /\ main_peers = 0

CodecIdle ==
    /\ cin = <<>>
    /\ cstream = <<>>
    /\ cbuf = <<>>
    /\ cout = <<>>
    /\ clast = [before |-> <<>>, res |-> "idle", frame |-> NoFrame,
                after |-> <<>>]
    /\ cphase = "idle"
    /\ cbytewise = FALSE

\* No PeerConnection has been created
ConnIdle ==
    /\ conn_addr = "none"
    /\ conn_pc = "idle"
    /\ conn_ret = "none"
    /\ read_buf = <<>>
    /\ r_cur = 0
    /\ read_len = 0
    /\ net_in = <<>>
    /\ net_state = "open"
    /\ ready = FALSE
    /\ net_out = <<>>
    /\ inbox = <<>>
    /\ outbox = <<>>
    /\ tx_alive = FALSE
    /\ out_sent = <<>>
    /\ rframes = <<>>
    /\ rpending = <<>>
    /\ conn_events = 0

\* Nothing has been sent on a sender stored in peer_channels
ChanIdle == chan = [a \in Addrs |-> <<>>]

\* No Framed of codec.rs has been created
FramedIdle ==
    /\ framed_bytes = <<>>
    /\ framed_inner = <<>>
    /\ framed_read = <<>>
    /\ framed_out = <<>>
    /\ framed_pc = "idle"
    /\ framed_end = "none"

\* The spawn loop of main is not followed
SpawnIdle ==
    /\ sp_pc = "idle"
    /\ sp_resolved = <<>>
    /\ sp_peers = <<>>
    /\ sp_next = 0
    /\ sp_tasks = <<>>
    /\ sp_registry = <<>>

OthersIdle == FramedIdle /\ SpawnIdle

\* Trackers::new has not been called, or its trackers are not followed
TrackerIdle ==
    /\ tphase = "idle"
    /\ tpc = <<>>
    /\ ttx = <<>>
    /\ tout = <<>>
    /\ telapsed = <<>>
    /\ tbuf = <<>>
    /\ trecv = <<>>
    /\ taliens = <<>>
    /\ resolved = <<>>
    /\ connections = <<>>
    /\ aresolved = <<>>
    /\ announced = <<>>

----------------------------------------------------------------------------
(* main.rs: Peer::handle_message and Peer::process_bitfield *)

RECURSIVE BitAnd(_, _)
\* u8 & u8
BitAnd(x, y) ==
    IF x = 0 \/ y = 0 THEN 0
    ELSE (x % 2) * (y % 2) + 2 * BitAnd(x \div 2, y \div 2)

\* u8 >> i
Shr(x, i) == x \div (2 ^ i)

\* process_bitfield with the mask walking up from the low bit
BitsOfByteLsbFirst(byte) == [k \in 1..8 |-> BitAnd(byte, 2 ^ (k - 1)) > 0]

\* the inner loop of process_bitfield: one bool per bit, mask = 0b10000000 >> i
BitsOfByte(byte) == [k \in 1..8 |-> BitAnd(byte, Shr(128, k - 1)) > 0]

RECURSIVE ProcessBitfield(_)
\* Peer::process_bitfield, on the payload of the message
ProcessBitfield(payload) ==
    IF payload = <<>> THEN <<>>
    ELSE BitsOfByte(Head(payload)) \o ProcessBitfield(Tail(payload))

\* The outcome of the match in handle_message on one PeerState: the state it
\* leaves, and whether it panicked (index out of range, read_u32 on a short
\* slice, todo!()).
Applied(st) == [panic |-> FALSE, st |-> st]

Panicked(st) == [panic |-> TRUE, st |-> st]

\* handle_message with Choke and Unchoke written to `choked`
HandleMessageWrongFlag(ps, m) ==
    CASE m.message_type = "Choke" -> Applied([ps EXCEPT !.choked = TRUE])
      [] m.message_type = "Unchoke" -> Applied([ps EXCEPT !.choked = FALSE])
      [] m.message_type = "Interested" ->
            Applied([ps EXCEPT !.interested = TRUE])
      [] m.message_type = "NotInterested" ->
            Applied([ps EXCEPT !.interested = FALSE])
      [] m.message_type = "Have" ->
            IF Len(m.payload) < 4 THEN Panicked(ps)
            ELSE IF ReadU32(m.payload) >= Len(ps.bitfield) THEN Panicked(ps)
            ELSE Applied([ps EXCEPT !.bitfield[ReadU32(m.payload) + 1] = TRUE])
      [] m.message_type = "Bitfield" ->
            Applied([ps EXCEPT !.bitfield = ProcessBitfield(m.payload)])
      [] OTHER -> Panicked(ps)

\* handle_message with Have counting pieces from 1
HandleMessageHaveFromOne(ps, m) ==
    CASE m.message_type = "Choke" -> Applied([ps EXCEPT !.am_choked = TRUE])
      [] m.message_type = "Unchoke" -> Applied([ps EXCEPT !.am_choked = FALSE])
      [] m.message_type = "Interested" ->
            Applied([ps EXCEPT !.interested = TRUE])
      [] m.message_type = "NotInterested" ->
            Applied([ps EXCEPT !.interested = FALSE])
      [] m.message_type = "Have" ->
            IF Len(m.payload) < 4 THEN Panicked(ps)
            ELSE IF ReadU32(m.payload) = 0
                    \/ ReadU32(m.payload) > Len(ps.bitfield)
            THEN Panicked(ps)
            ELSE Applied([ps EXCEPT !.bitfield[ReadU32(m.payload)] = TRUE])
      [] m.message_type = "Bitfield" ->
            Applied([ps EXCEPT !.bitfield = ProcessBitfield(m.payload)])
      [] OTHER -> Panicked(ps)

HandleMessage(ps, m) ==
    CASE m.message_type = "Choke" -> Applied([ps EXCEPT !.am_choked = TRUE])
      [] m.message_type = "Unchoke" -> Applied([ps EXCEPT !.am_choked = FALSE])
      [] m.message_type = "Interested" ->
            Applied([ps EXCEPT !.interested = TRUE])
      [] m.message_type = "NotInterested" ->
            Applied([ps EXCEPT !.interested = FALSE])
      [] m.message_type = "Have" ->
            IF Len(m.payload) < 4 THEN Panicked(ps)
            ELSE IF ReadU32(m.payload) >= Len(ps.bitfield) THEN Panicked(ps)
            ELSE Applied([ps EXCEPT !.bitfield[ReadU32(m.payload) + 1] = TRUE])
      [] m.message_type = "Bitfield" ->
            Applied([ps EXCEPT !.bitfield = ProcessBitfield(m.payload)])
      [] OTHER -> Panicked(ps)

----------------------------------------------------------------------------
(* The remote peers *)

RemotePeerId == Fill(HashLen, 34)

OtherInfoHash == Fill(HashLen, 51)

\* "BitTorrent protocoL"
OtherPstr == [BITTORRENT_PROTOCOL EXCEPT ![PstrLen] = 76]

HaveIndices == {1, 16}

BitfieldPayloads == {<<164>>, <<160, 1>>}

RemoteFrames ==
    {HandshakeFrame(BITTORRENT_PROTOCOL, LocalInfoHash, RemotePeerId),
     HandshakeFrame(BITTORRENT_PROTOCOL, OtherInfoHash, RemotePeerId),
     HandshakeFrame(OtherPstr, LocalInfoHash, RemotePeerId)}
    \cup {DataFrame(id, <<>>) : id \in 0..3}
    \cup {DataFrame(4, PutU32(i)) : i \in HaveIndices}
    \cup {DataFrame(5, p) : p \in BitfieldPayloads}
    \cup {DataFrame(6, PutU32(0) \o PutU32(0) \o PutU32(16384)),
          DataFrame(9, <<26, 225>>),
          DataFrame(10, <<>>)}

\* length = 0
KeepAlive == PutU32(0)

\* The remotes that keep to the protocol: a handshake with the local hash,
\* Unchoke and Interested. The other remotes send any of RemoteFrames and
\* keep-alives.
PlainAddrs == {"p2"}

PlainFrames ==
    {HandshakeFrame(BITTORRENT_PROTOCOL, LocalInfoHash, RemotePeerId),
     DataFrame(1, <<>>), DataFrame(2, <<>>)}

RemoteWire(a) ==
    IF a \in PlainAddrs
    THEN {PeerCodecEncode(f) : f \in PlainFrames}
    ELSE {PeerCodecEncode(f) : f \in RemoteFrames} \cup {KeepAlive}

Ended(a) == pc[a] \in {"done", "failed", "panicked"}  \* peer_process is over

Connected(a) == pc[a] # "start" /\ ~Ended(a)

RECURSIVE Unread(_)
\* The frames in the bytes the session has not decoded yet
Unread(buf) ==
    IF buf = <<>> THEN 0
    ELSE LET r == PeerCodecDecode(buf)
         IN  IF r.res = "some" THEN 1 + Unread(r.buf) ELSE 1

\* The remote writes one frame to the connection.
RemoteSend(a) ==
    /\ Connected(a)
    /\ sock[a] = "open"
    /\ events < MaxEvents
    /\ Unread(rbuf[a]) < MaxInFlight
    /\ \E w \in RemoteWire(a) : rbuf' = [rbuf EXCEPT ![a] = @ \o w]
    /\ events' = events + 1
    /\ UNCHANGED <<peer_channels, peer_state, writer, readers, pc, sock, wire,
                   msg, ret, rx_alive, first, consumed, main_pc, main_peers>>
    /\ UNCHANGED <<codecVars, trackerVars, connVars, chan,
                   otherVars>>

\* The remote closes the connection in order (FIN).
RemoteClose(a) ==
    /\ Connected(a)
    /\ sock[a] = "open"
    /\ events < MaxEvents
    /\ sock' = [sock EXCEPT ![a] = "eof"]
    /\ events' = events + 1
    /\ UNCHANGED <<peer_channels, peer_state, writer, readers, pc, rbuf, wire,
                   msg, ret, rx_alive, first, consumed, main_pc, main_peers>>
    /\ UNCHANGED <<codecVars, trackerVars, connVars, chan,
                   otherVars>>

\* The connection is reset (RST).
RemoteReset(a) ==
    /\ Connected(a)
    /\ sock[a] = "open"
    /\ events < MaxEvents
    /\ sock' = [sock EXCEPT ![a] = "reset"]
    /\ events' = events + 1
    /\ UNCHANGED <<peer_channels, peer_state, writer, readers, pc, rbuf, wire,
                   msg, ret, rx_alive, first, consumed, main_pc, main_peers>>
    /\ UNCHANGED <<codecVars, trackerVars, connVars, chan,
                   otherVars>>

----------------------------------------------------------------------------
(* main.rs: peer_process *)

\* Framed::next() on the session's stream: decode what is buffered; when the
\* buffer holds no whole frame, read the socket ("pending" while the remote is
\* silent), and at end of stream hand the rest to decode_eof.
FramedNext(buf, s) ==
    LET r == PeerCodecDecode(buf)
    IN  IF r.res # "none" THEN r
        ELSE IF s = "open" THEN Decoded("pending", NoFrame, buf)
        ELSE IF s = "reset" THEN Decoded("err", NoFrame, buf)
        ELSE PeerCodecDecodeEof(buf)

\* TcpStream::peer_addr(): the results it can give; it can fail once the
\* connection is reset.
PeerAddrOk(s) == IF s = "reset" THEN BOOLEAN ELSE {TRUE}

\* RwLock: a write guard excludes every other guard.
CanRead == writer = NoTask

CanWrite == writer = NoTask /\ readers = {}

EndStates == {"done", "failed", "panicked"}

\* peer_process returning or unwinding drops `framed`, and with it the bytes
\* it had buffered.
FramedAfter(buf, p) == IF p \in EndStates THEN <<>> ELSE buf

\* TcpStream::connect under the 5 second timeout, and `??`
Connect(a) ==
    /\ pc[a] = "start"
    /\ \E ok \in BOOLEAN :
          pc' = [pc EXCEPT ![a] = IF ok THEN "connected" ELSE "failed"]
    /\ UNCHANGED <<peer_channels, peer_state, writer, readers, rbuf, sock,
                   wire, msg, ret, rx_alive, events, first, consumed, main_pc,
                   main_peers>>
    /\ UNCHANGED <<codecVars, trackerVars, connVars, chan,
                   otherVars>>

\* state.read().await before the handshake is sent
HsLock(a) ==
    /\ pc[a] = "connected"
    /\ CanRead
    /\ readers' = readers \cup {a}
    /\ pc' = [pc EXCEPT ![a] = "hs_locked"]
    /\ UNCHANGED <<peer_channels, peer_state, writer, rbuf, sock, wire, msg,
                   ret, rx_alive, events, first, consumed, main_pc,
                   main_peers>>
    /\ UNCHANGED <<codecVars, trackerVars, connVars, chan,
                   otherVars>>

\* framed.send(hs_frame).await? with the read guard never dropped
HsSendKeepsGuard(a) ==
    /\ pc[a] = "hs_locked"
    /\ IF sock[a] = "reset"
       THEN /\ pc' = [pc EXCEPT ![a] = "failed"]
            /\ wire' = wire
       ELSE /\ pc' = [pc EXCEPT ![a] = "await_hs"]
            /\ wire' = [wire EXCEPT ![a] = @ \o PeerCodecEncode(LocalHandshake)]
    /\ rbuf' = [rbuf EXCEPT ![a] = FramedAfter(@, pc'[a])]
    /\ UNCHANGED <<peer_channels, peer_state, writer, readers, sock, msg, ret,
                   rx_alive, events, first, consumed, main_pc, main_peers>>
    /\ UNCHANGED <<codecVars, trackerVars, connVars, chan,
                   otherVars>>

\* framed.send(hs_frame).await? with the read guard held; the guard is
\* dropped at the end of the block, or by `?`
HsSend(a) ==
    /\ pc[a] = "hs_locked"
    /\ IF sock[a] = "reset"
       THEN /\ pc' = [pc EXCEPT ![a] = "failed"]
            /\ wire' = wire
       ELSE /\ pc' = [pc EXCEPT ![a] = "await_hs"]
            /\ wire' = [wire EXCEPT ![a] = @ \o PeerCodecEncode(LocalHandshake)]
    /\ readers' = readers \ {a}
    /\ rbuf' = [rbuf EXCEPT ![a] = FramedAfter(@, pc'[a])]
    /\ UNCHANGED <<peer_channels, peer_state, writer, sock, msg, ret,
                   rx_alive, events, first, consumed, main_pc, main_peers>>
    /\ UNCHANGED <<codecVars, trackerVars, connVars, chan,
                   otherVars>>

\* the first match without the comparison of the info hashes
HandshakeAcceptedAnyHash(r, info_hash) ==
    /\ r.res = "some"
    /\ r.frame.kind = "Handshake"

\* The arm of the first match that lets the session go on
HandshakeAccepted(r, info_hash) ==
    /\ r.res = "some"
    /\ r.frame.kind = "Handshake"
    /\ r.frame.info_hash = info_hash

\* match framed.next().await: the handshake gate; then Peer::new up to its
\* shared.write().await: peer_addr()? and mpsc::unbounded_channel()
AwaitHs(a) ==
    /\ pc[a] = "await_hs"
    /\ LET r == FramedNext(rbuf[a], sock[a])
       IN  /\ r.res # "pending"
           /\ first' = [first EXCEPT ![a] = FirstResult(r)]
           /\ IF HandshakeAccepted(r, LocalInfoHash)
              THEN \E ok \in PeerAddrOk(sock[a]) :
                      /\ pc' = [pc EXCEPT ![a] =
                                   IF ok THEN "new_wait" ELSE "failed"]
                      /\ rx_alive' = [rx_alive EXCEPT ![a] = ok]
              ELSE /\ pc' = [pc EXCEPT ![a] = "failed"]
                   /\ UNCHANGED rx_alive
           /\ rbuf' = [rbuf EXCEPT ![a] = FramedAfter(r.buf, pc'[a])]
    /\ UNCHANGED <<peer_channels, peer_state, writer, readers, sock, wire,
                   msg, ret, events, consumed, main_pc, main_peers>>
    /\ UNCHANGED <<codecVars, trackerVars, connVars, chan,
                   otherVars>>

\* Peer::new with the write guard dropped before the inserts
NewLockDropped(a) ==
    /\ pc[a] = "new_wait"
    /\ CanWrite
    /\ peer_channels' = MapInsert(peer_channels, a, a)
    /\ pc' = [pc EXCEPT ![a] = "new_ch"]
    /\ UNCHANGED <<peer_state, writer, readers, rbuf, sock, wire, msg, ret,
                   rx_alive, events, first, consumed, main_pc, main_peers>>
    /\ UNCHANGED <<codecVars, trackerVars, connVars, chan,
                   otherVars>>

\* Peer::new: shared.write().await and state.peer_channels.insert(addr, tx)
NewLock(a) ==
    /\ pc[a] = "new_wait"
    /\ CanWrite
    /\ writer' = a
    /\ peer_channels' = MapInsert(peer_channels, a, a)
    /\ pc' = [pc EXCEPT ![a] = "new_ch"]
    /\ UNCHANGED <<peer_state, readers, rbuf, sock, wire, msg, ret,
                   rx_alive, events, first, consumed, main_pc, main_peers>>
    /\ UNCHANGED <<codecVars, trackerVars, connVars, chan,
                   otherVars>>

\* Peer::new: state.peer_state.insert(addr, PeerState::default()); the write
\* guard is dropped at the end of the block
NewInsertState(a) ==
    /\ pc[a] = "new_ch"
    /\ peer_state' = MapInsert(peer_state, a, DefaultPeerState)
    /\ writer' = IF writer = a THEN NoTask ELSE writer
    /\ pc' = [pc EXCEPT ![a] = "pump"]
    /\ UNCHANGED <<peer_channels, readers, rbuf, sock, wire, msg, ret,
                   rx_alive, events, first, consumed, main_pc, main_peers>>
    /\ UNCHANGED <<codecVars, trackerVars, connVars, chan,
                   otherVars>>

\* while let Some(frame) = peer.framed.next().await, and the match on it up
\* to the shared.write().await of handle_message or of cleanup.
\* PeerMessageType::from panics on an id above 9: the task unwinds, the Peer
\* is dropped, cleanup is not run. cleanup returns at peer_addr()? when that
\* fails.
Pump(a) ==
    /\ pc[a] = "pump"
    /\ LET r == FramedNext(rbuf[a], sock[a])
           n == Len(rbuf[a]) - Len(r.buf)
       IN  /\ r.res # "pending"
           /\ consumed' = [consumed EXCEPT ![a] = Take(rbuf[a], n)]
           /\ IF r.res = "some" /\ r.frame.kind = "Data"
              THEN IF FromU8(r.frame.message_id) = "panic"
                   THEN /\ pc' = [pc EXCEPT ![a] = "panicked"]
                        /\ rx_alive' = [rx_alive EXCEPT ![a] = FALSE]
                        /\ UNCHANGED <<msg, ret>>
                   ELSE /\ pc' = [pc EXCEPT ![a] = "hm_wait"]
                        /\ msg' = [msg EXCEPT ![a] =
                                     PeerMessage(FromU8(r.frame.message_id),
                                                 r.frame.payload)]
                        /\ UNCHANGED <<rx_alive, ret>>
              ELSE \E ok \in PeerAddrOk(sock[a]) :
                      /\ pc' = [pc EXCEPT ![a] =
                                   IF ok THEN "cl_wait" ELSE "failed"]
                      /\ rx_alive' = [rx_alive EXCEPT ![a] = ok]
                      /\ ret' = [ret EXCEPT ![a] =
                                   IF r.res = "end" /\ ok THEN "ok" ELSE "err"]
                      /\ UNCHANGED msg
           /\ rbuf' = [rbuf EXCEPT ![a] = FramedAfter(r.buf, pc'[a])]
    /\ UNCHANGED <<peer_channels, peer_state, writer, readers, sock, wire,
                   events, first, main_pc, main_peers>>
    /\ UNCHANGED <<codecVars, trackerVars, connVars, chan,
                   otherVars>>

\* handle_message: self.shared.write().await
HmLock(a) ==
    /\ pc[a] = "hm_wait"
    /\ CanWrite
    /\ writer' = a
    /\ pc' = [pc EXCEPT ![a] = "hm_locked"]
    /\ UNCHANGED <<peer_channels, peer_state, readers, rbuf, sock, wire, msg,
                   ret, rx_alive, events, first, consumed, main_pc,
                   main_peers>>
    /\ UNCHANGED <<codecVars, trackerVars, connVars, chan,
                   otherVars>>

\* handle_message: get_mut(&self.addr).unwrap() and the match; the write guard
\* is dropped when the function returns or unwinds
HmApply(a) ==
    /\ pc[a] = "hm_locked"
    /\ IF a \notin DOMAIN peer_state
       THEN /\ pc' = [pc EXCEPT ![a] = "panicked"]
            /\ rx_alive' = [rx_alive EXCEPT ![a] = FALSE]
            /\ UNCHANGED peer_state
       ELSE LET h == HandleMessage(peer_state[a], msg[a])
            IN  /\ peer_state' = [peer_state EXCEPT ![a] = h.st]
                /\ pc' = [pc EXCEPT ![a] =
                             IF h.panic THEN "panicked" ELSE "pump"]
                /\ rx_alive' = [rx_alive EXCEPT ![a] = ~h.panic]
    /\ writer' = NoTask
    /\ msg' = [msg EXCEPT ![a] = NoMsg]
    /\ consumed' = [consumed EXCEPT ![a] = IF pc'[a] = "pump" THEN <<>> ELSE @]
    /\ rbuf' = [rbuf EXCEPT ![a] = FramedAfter(@, pc'[a])]
    /\ UNCHANGED <<peer_channels, readers, sock, wire, ret, events,
                   first, main_pc, main_peers>>
    /\ UNCHANGED <<codecVars, trackerVars, connVars, chan,
                   otherVars>>

\* cleanup: self.shared.write().await and state.peer_channels.remove(&addr)
ClLock(a) ==
    /\ pc[a] = "cl_wait"
    /\ CanWrite
    /\ writer' = a
    /\ peer_channels' = MapRemove(peer_channels, a)
    /\ pc' = [pc EXCEPT ![a] = "cl_ch"]
    /\ UNCHANGED <<peer_state, readers, rbuf, sock, wire, msg, ret,
                   rx_alive, events, first, consumed, main_pc, main_peers>>
    /\ UNCHANGED <<codecVars, trackerVars, connVars, chan,
                   otherVars>>

\* cleanup without state.peer_state.remove(&addr)
ClRemoveStateSkipped(a) ==
    /\ pc[a] = "cl_ch"
    /\ writer' = NoTask
    /\ pc' = [pc EXCEPT ![a] = IF ret[a] = "ok" THEN "done" ELSE "failed"]
    /\ rx_alive' = [rx_alive EXCEPT ![a] = FALSE]
    /\ rbuf' = [rbuf EXCEPT ![a] = FramedAfter(@, pc'[a])]
    /\ UNCHANGED <<peer_channels, peer_state, readers, sock, wire, msg, ret,
                   events, first, consumed, main_pc, main_peers>>
    /\ UNCHANGED <<codecVars, trackerVars, connVars, chan,
                   otherVars>>

\* cleanup: state.peer_state.remove(&addr); the guard is dropped on return,
\* and peer_process returns: Ok(()) after the loop, the error after a bail
ClRemoveState(a) ==
    /\ pc[a] = "cl_ch"
    /\ peer_state' = MapRemove(peer_state, a)
    /\ writer' = NoTask
    /\ pc' = [pc EXCEPT ![a] = IF ret[a] = "ok" THEN "done" ELSE "failed"]
    /\ rx_alive' = [rx_alive EXCEPT ![a] = FALSE]
    /\ rbuf' = [rbuf EXCEPT ![a] = FramedAfter(@, pc'[a])]
    /\ UNCHANGED <<peer_channels, readers, sock, wire, msg, ret, events,
                   first, consumed, main_pc, main_peers>>
    /\ UNCHANGED <<codecVars, trackerVars, connVars, chan,
                   otherVars>>

----------------------------------------------------------------------------
(* main.rs: main *)

\* The end of the block that spawned the sessions: its read guard is dropped
MainSpawned ==
    /\ main_pc = "spawn"
    /\ readers' = readers \ {"main"}
    /\ main_pc' = "yield"
    /\ UNCHANGED <<peer_channels, peer_state, writer, pc, rbuf, sock, wire,
                   msg, ret, rx_alive, events, first, consumed, main_peers>>
    /\ UNCHANGED <<codecVars, trackerVars, connVars, chan,
                   otherVars>>

\* The status loop: state.read().await and peers = keys().len()
MainRead ==
    /\ main_pc = "yield"
    /\ CanRead
    /\ readers' = readers \cup {"main"}
    /\ main_peers' = Cardinality(DOMAIN peer_state)
    /\ main_pc' = "fold"
    /\ UNCHANGED <<peer_channels, peer_state, writer, pc, rbuf, sock, wire,
                   msg, ret, rx_alive, events, first, consumed>>
    /\ UNCHANGED <<codecVars, trackerVars, connVars, chan,
                   otherVars>>

\* unchoked_peers of the status loop
UnchokedPeers == Cardinality({a \in DOMAIN peer_state : ~peer_state[a].am_choked})

\* The status loop: the fold, println!, and the guard dropped at the end of
\* the iteration
MainPrint ==
    /\ main_pc = "fold"
    /\ readers' = readers \ {"main"}
    /\ main_peers' = 0
    /\ main_pc' = "yield"
    /\ UNCHANGED <<peer_channels, peer_state, writer, pc, rbuf, sock, wire,
                   msg, ret, rx_alive, events, first, consumed>>
    /\ UNCHANGED <<codecVars, trackerVars, connVars, chan,
                   otherVars>>

----------------------------------------------------------------------------
(* The sessions and the status loop *)

Init ==
    SessionInit /\ ChanIdle /\ CodecIdle /\ TrackerIdle /\ ConnIdle
        /\ OthersIdle

Next ==
    \/ \E a \in Addrs : RemoteSend(a)
    \/ \E a \in Addrs : RemoteClose(a)
    \/ \E a \in Addrs : RemoteReset(a)
    \/ \E a \in Addrs : Connect(a)
    \/ \E a \in Addrs : HsLock(a)
    \/ \E a \in Addrs : HsSend(a)
    \/ \E a \in Addrs : AwaitHs(a)
    \/ \E a \in Addrs : NewLock(a)
    \/ \E a \in Addrs : NewInsertState(a)
    \/ \E a \in Addrs : Pump(a)
    \/ \E a \in Addrs : HmLock(a)
    \/ \E a \in Addrs : HmApply(a)
    \/ \E a \in Addrs : ClLock(a)
    \/ \E a \in Addrs : ClRemoveState(a)
    \/ MainSpawned
    \/ MainRead
    \/ MainPrint

Spec == Init /\ [][Next]_vars

----------------------------------------------------------------------------
(* main.rs: the channel of Peer::new. Its sender is stored in peer_channels, *)
(* its receiver in Peer.rx; no code of main.rs sends on the one or receives  *)
(* from the other. ChannelSend is a send by whoever takes the sender out of  *)
(* peer_channels.                                                            *)

MaxChan == 1

\* The messages sent on a peer's sender
ChanMessages == {PeerMessage("Interested", <<>>)}

\* UnboundedSender::send on the sender stored for a: the message is queued
\* while the receiver exists
ChannelSend(a) ==
    /\ a \in DOMAIN peer_channels
    /\ rx_alive[a]
    /\ Len(chan[a]) < MaxChan
    /\ \E m \in ChanMessages : chan' = [chan EXCEPT ![a] = Append(@, m)]
    /\ UNCHANGED <<sessionVars, codecVars, trackerVars, connVars, otherVars>>

\* The steps of the task spawned for a
PeerProcess(a) ==
    \/ Connect(a)
    \/ HsLock(a)
    \/ HsSend(a)
    \/ AwaitHs(a)
    \/ NewLock(a)
    \/ NewInsertState(a)
    \/ Pump(a)
    \/ HmLock(a)
    \/ HmApply(a)
    \/ ClLock(a)
    \/ ClRemoveState(a)

\* The steps of main
MainLoop == MainSpawned \/ MainRead \/ MainPrint

NextChan == Next \/ \E a \in Addrs : ChannelSend(a)

\* The runtime keeps running every task that can take a step, and the
\* RwLock serves its waiters in turn, so that a task that can take the lock
\* again and again gets it.
SpecChanFair ==
    /\ Init
    /\ [][NextChan]_vars
    /\ \A a \in Addrs : SF_vars(PeerProcess(a))
    /\ SF_vars(MainLoop)

\* The remotes do at most this much in a run of SpecLockFair
MaxLockEvents == 2

\* What the remote of a may do
RemoteStep(a) == RemoteSend(a) \/ RemoteClose(a) \/ RemoteReset(a)

\* The steps in which the task of a takes the lock
LockStep(a) == HsLock(a) \/ NewLock(a) \/ HmLock(a) \/ ClLock(a)

\* The steps the task of a takes with a guard held, up to the drop of the
\* guard
GuardedStep(a) ==
    HsSend(a) \/ NewInsertState(a) \/ HmApply(a) \/ ClRemoveState(a)

NextLock ==
    \/ \E a \in Addrs : events < MaxLockEvents /\ RemoteStep(a)
    \/ \E a \in Addrs : PeerProcess(a)
    \/ MainLoop

\* The RwLock queues its waiters, so that a task that can take the lock
\* again and again gets it; a task that holds a guard is runnable and the
\* runtime runs it (the 68 bytes of the handshake fit the empty send buffer
\* of the new socket, whatever the remote does). A connect or a
\* framed.next() may wait for ever: the remote may stay silent.
SpecLockFair ==
    /\ Init
    /\ [][NextLock]_vars
    /\ \A a \in Addrs : SF_vars(LockStep(a)) /\ WF_vars(GuardedStep(a))
    /\ WF_vars(MainLoop)

----------------------------------------------------------------------------
(* peer_codec.rs: PeerCodec::decode driven on a stream of encoded frames, the *)
(* way Framed drives it: decode until the buffer holds no whole frame, then   *)
(* append what the transport delivers next.                                   *)

CodecIds == {0, 4, 9}

CodecPayloadLens == {0, 1, MaxPayloadLen - 1, MaxPayloadLen}

CodecDataFrames ==
    {DataFrame(id, Fill(n, 255)) : id \in CodecIds, n \in CodecPayloadLens}

CodecHandshakes ==
    {HandshakeFrame(BITTORRENT_PROTOCOL, LocalInfoHash, RemotePeerId)}

CodecFrames == CodecDataFrames \cup CodecHandshakes

\* 1, 2, .., n
Ramp(n) == [i \in 1..n |-> i]

\* The frames given to the codec alone: every id of 0..9 with each payload
\* length, and handshakes with several info hashes and peer ids
SingleDataFrames ==
    {DataFrame(id, Ramp(n)) : id \in 0..9, n \in CodecPayloadLens}

SingleHandshakes ==
    {HandshakeFrame(BITTORRENT_PROTOCOL, h, p) :
        h \in {LocalInfoHash, OtherInfoHash, Ramp(HashLen)},
        p \in {RemotePeerId, LocalPeerId}}

CodecInputs ==
    {<<f>> : f \in CodecFrames \cup SingleDataFrames \cup SingleHandshakes}
        \cup {<<f, g>> : f, g \in CodecFrames}

RECURSIVE EncodeAll(_)
EncodeAll(frames) ==
    IF frames = <<>> THEN <<>>
    ELSE PeerCodecEncode(Head(frames)) \o EncodeAll(Tail(frames))

CodecInit ==
    /\ cin \in CodecInputs
    /\ cstream = EncodeAll(cin)
    /\ cbuf = <<>>
    /\ cout = <<>>
    /\ clast = [before |-> <<>>, res |-> "idle", frame |-> NoFrame,
                after |-> <<>>]
    /\ cphase = "read"
    /\ cbytewise = TRUE

\* The transport delivers the next byte, or all the bytes left.
CodecRead ==
    /\ cphase = "read"
    /\ cstream # <<>>
    /\ \E n \in {1, Len(cstream)} :
          /\ cbuf' = cbuf \o Take(cstream, n)
          /\ cstream' = Drop(cstream, n)
          /\ cbytewise' = (cbytewise /\ n = 1)
    /\ cphase' = "decode"
    /\ UNCHANGED <<cin, cout, clast>>
    /\ UNCHANGED <<sessionVars, trackerVars, connVars, chan,
                   otherVars>>

\* One call of PeerCodec::decode on the buffer.
CodecDecode ==
    /\ cphase = "decode"
    /\ LET r == PeerCodecDecode(cbuf)
       IN  /\ clast' = [before |-> cbuf, res |-> r.res, frame |-> r.frame,
                        after |-> r.buf]
           /\ cbuf' = r.buf
           /\ cout' = IF r.res = "some" THEN Append(cout, r.frame) ELSE cout
           /\ cphase' = CASE r.res = "some" -> "decode"
                          [] r.res = "none" -> "read"
                          [] OTHER -> "failed"
    /\ UNCHANGED <<cin, cstream, cbytewise>>
    /\ UNCHANGED <<sessionVars, trackerVars, connVars, chan,
                   otherVars>>

CodecNext == CodecRead \/ CodecDecode

InitCodec ==
    SessionInit /\ ChanIdle /\ CodecInit /\ TrackerIdle /\ ConnIdle
        /\ OthersIdle

SpecCodec == InitCodec /\ [][CodecNext]_vars

----------------------------------------------------------------------------
(* tracker_stream.rs: the wire formats *)

\* An i64 as its two 32-bit halves, high half first.
I64(hi, lo) == [hi |-> hi, lo |-> lo]

\* BigEndian::read_i64
ReadI64(b) == I64(ReadU32(Take(b, 4)), ReadU32(SubSeq(b, 5, 8)))

\* BigEndian::write_i64 / write_u64
WriteI64(v) == PutU32(v.hi) \o PutU32(v.lo)

\* BigEndian::write_i32: two's complement
WriteI32(n) ==
    IF n >= 0 THEN PutU32(n)
    ELSE LET m == (n + 2147483647) + 1
         IN  << 128 + (m \div 16777216), (m \div 65536) % 256,
                (m \div 256) % 256, m % 256 >>

\* BigEndian::write_u16
WriteU16(n) == << (n \div 256) % 256, n % 256 >>

\* BigEndian::read_u16 with the low byte first
ReadU16LittleEndian(b) == b[1] + b[2] * 256

\* BigEndian::read_u16
ReadU16(b) == b[1] * 256 + b[2]

\* 0x41727101980
PROTOCOL_ID == I64(1047, 655366528)

CONNECT_REQUEST_SIZE == 16

CONNECT_RESPONSE_SIZE == 16

ANNOUNCE_REQUEST_BYTES == 98

\* the size of bytes_recv in TrackerConnection::announce
ANNOUNCE_RECV_SIZE == 4000

\* the fixed part of an announce response
ANNOUNCE_HEADER_SIZE == 20

\* Duration::from_secs(3)
TimeoutSecs == 3

\* ConnectRequest::new; transaction_id is rand::random()
ConnectRequestNew(transaction_id) ==
    [protocol_id |-> PROTOCOL_ID, action |-> 0,
     transaction_id |-> transaction_id]

\* ConnectRequest::to_bytes
ConnectRequestToBytes(req) ==
    WriteI64(req.protocol_id) \o PutU32(req.action)
        \o PutU32(req.transaction_id)

\* ConnectResponse::from_bytes
ConnectResponseFromBytes(bytes) ==
    [action |-> ReadU32(Take(bytes, 4)),
     transaction_id |-> ReadU32(SubSeq(bytes, 5, 8)),
     connection_id |-> ReadI64(SubSeq(bytes, 9, 16))]

\* The descriptor Trackers::announce builds for one connection
AnnounceRequestDescriptor(connection_id, peer_id, info_hash) ==
    [connection_id |-> connection_id, peer_id |-> peer_id,
     info_hash |-> info_hash, downloaded |-> I64(0, 0), left |-> I64(0, 0),
     uploaded |-> I64(0, 0), event |-> 0]

\* AnnounceRequest::new; transaction_id and key are rand::random()
AnnounceRequestNew(descriptor, transaction_id, key) ==
    [connection_id |-> descriptor.connection_id, action |-> 1,
     transaction_id |-> transaction_id, info_hash |-> descriptor.info_hash,
     peer_id |-> descriptor.peer_id, downloaded |-> descriptor.downloaded,
     left |-> descriptor.left, uploaded |-> descriptor.uploaded,
     event |-> descriptor.event, ip_address |-> 0, key |-> key,
     num_want |-> -1, port |-> 6881]

\* AnnounceRequest::to_bytes
AnnounceRequestToBytes(req) ==
    WriteI64(req.connection_id) \o PutU32(req.action)
        \o PutU32(req.transaction_id) \o req.info_hash \o req.peer_id
        \o WriteI64(req.downloaded) \o WriteI64(req.left)
        \o WriteI64(req.uploaded) \o PutU32(req.event)
        \o PutU32(req.ip_address) \o PutU32(req.key)
        \o WriteI32(req.num_want) \o WriteU16(req.port)

\* SocketAddr::new(IpAddr::V4(ip), port)
SocketAddr(ip, port) == [ip |-> ip, port |-> port]

\* the body of the loop of from_bytes with the port read low byte first
PeerOfChunkLittleEndian(address) ==
    SocketAddr(Take(address, 4), ReadU16LittleEndian(SubSeq(address, 5, 6)))

\* the body of the loop of AnnounceResponse::from_bytes, on one chunk
PeerOfChunk(address) ==
    SocketAddr(Take(address, 4), ReadU16(SubSeq(address, 5, 6)))

RECURSIVE PeersOfChunks(_)
\* for address in peer_list.chunks(6) { ... peers.push(peer) }
PeersOfChunks(peer_list) ==
    IF peer_list = <<>> THEN <<>>
    ELSE <<PeerOfChunk(Take(peer_list, 6))>>
            \o PeersOfChunks(Drop(peer_list, 6))

\* The first n bytes of a receive buffer of which `written` is the part
\* written so far: the buffer starts as zeroes.
BufferPrefix(written, n) ==
    IF Len(written) >= n THEN Take(written, n)
    ELSE written \o Fill(n - Len(written), 0)

\* AnnounceResponse::from_bytes(&bytes_recv, length); panic is TRUE when the
\* slice bytes[20..length] is out of order or the peer list is not a multiple
\* of 6 bytes long
AnnounceResponseFromBytes(bytes, length) ==
    LET header == BufferPrefix(bytes, ANNOUNCE_HEADER_SIZE)
        fields == [action |-> ReadU32(Take(header, 4)),
                   transaction_id |-> ReadU32(SubSeq(header, 5, 8)),
                   interval |-> ReadU32(SubSeq(header, 9, 12)),
                   leechers |-> ReadU32(SubSeq(header, 13, 16)),
                   seeders |-> ReadU32(SubSeq(header, 17, 20))]
    IN  IF length < ANNOUNCE_HEADER_SIZE
        THEN [panic |-> TRUE, transaction_id |-> fields.transaction_id,
              peers |-> <<>>]
        ELSE LET peer_list ==
                     SubSeq(BufferPrefix(bytes, length),
                            ANNOUNCE_HEADER_SIZE + 1, length)
             IN  IF Len(peer_list) % 6 # 0
                 THEN [panic |-> TRUE,
                       transaction_id |-> fields.transaction_id,
                       peers |-> <<>>]
                 ELSE [panic |-> FALSE,
                       transaction_id |-> fields.transaction_id,
                       peers |-> PeersOfChunks(peer_list)]

\* UdpSocket::recv_from(&mut buf) of a datagram d into a buffer of cap bytes:
\* what does not fit is discarded; n is the count returned.
RecvFrom(written, d, cap) ==
    LET n == IF Len(d) < cap THEN Len(d) ELSE cap
    IN  [n |-> n, buf |-> Take(d, n) \o Drop(written, n)]

RECURSIVE Flatten(_)
\* resolved.into_iter().flatten().collect::<Vec<_>>()
Flatten(lists) ==
    IF lists = <<>> THEN <<>> ELSE Head(lists) \o Flatten(Tail(lists))

\* flattened.retain(..) keeping every element
RetainAll(flattened, uniques) == flattened

\* flattened.retain(..) dropping an element only when it repeats the one
\* before it
RECURSIVE RetainAdjacent(_, _)
RetainAdjacent(flattened, uniques) ==
    IF Len(flattened) < 2 THEN flattened
    ELSE IF flattened[1] = flattened[2]
    THEN RetainAdjacent(Tail(flattened), uniques)
    ELSE <<Head(flattened)>> \o RetainAdjacent(Tail(flattened), uniques)

RECURSIVE Retain(_, _)
\* flattened.retain(|i| uniques.insert(*i)): an element stays when the set
\* did not hold it yet
Retain(flattened, uniques) ==
    IF flattened = <<>> THEN <<>>
    ELSE IF Head(flattened) \in uniques
    THEN Retain(Tail(flattened), uniques)
    ELSE <<Head(flattened)>>
            \o Retain(Tail(flattened), uniques \cup {Head(flattened)})

\* Trackers::new keeping every result
FilterOkAll(results) ==
    [i \in DOMAIN results |->
        [addr |-> results[i].addr,
         connection_id |-> results[i].connection_id]]

RECURSIVE FilterOk(_)
\* Trackers::new: resolved.into_iter().filter_map(..).collect()
FilterOk(results) ==
    IF results = <<>> THEN <<>>
    ELSE IF Head(results).res = "ok"
    THEN <<[addr |-> Head(results).addr,
            connection_id |-> Head(results).connection_id]>>
            \o FilterOk(Tail(results))
    ELSE FilterOk(Tail(results))

----------------------------------------------------------------------------
(* The trackers and the other hosts on the network *)

\* magnet.tracker_urls
TrackerUrls == {"t1", "t2", "t3"}

\* the trackers whose host name no longer resolves
DeadTrackers == {"t3"}

\* where datagrams come from that are not from the tracker asked
Alien == "alien"

Sources(t) == {t, Alien}

\* the values rand::random() gives a transaction_id
TxIds == {258, 513}

OtherTx(tx) == CHOOSE x \in TxIds : x # tx

\* the value rand::random() gives the key of an announce
Keys == {99}

\* 0x1122334455667788 from the first tracker
TrackerConnectionId(t) ==
    IF t = "t1" THEN I64(287454020, 1432778632) ELSE I64(0, 2)

AlienConnectionId == I64(1, 1)

Peer1 == SocketAddr(<<10, 0, 0, 1>>, 6881)

Peer2 == SocketAddr(<<10, 0, 0, 2>>, 6882)

Peer3 == SocketAddr(<<10, 0, 0, 3>>, 513)

AlienPeer == SocketAddr(<<192, 168, 0, 9>>, 9)

\* the peer lists a tracker may answer with
PeerLists(t) ==
    CASE t = "t1" -> {<<Peer1, Peer2>>, <<>>}
      [] t = "t2" -> {<<Peer2, Peer3, Peer2>>}
      [] OTHER -> {<<Peer1>>}

\* a connect response as a tracker writes it
ConnectResponseBytes(transaction_id, connection_id) ==
    PutU32(0) \o PutU32(transaction_id) \o WriteI64(connection_id)

RECURSIVE CompactPeers(_)
\* the packed list of (IPv4, port) pairs, as a tracker writes it
CompactPeers(peers) ==
    IF peers = <<>> THEN <<>>
    ELSE Head(peers).ip \o WriteU16(Head(peers).port)
            \o CompactPeers(Tail(peers))

\* an announce response as a tracker writes it
AnnounceResponseBytes(transaction_id, peers) ==
    PutU32(1) \o PutU32(transaction_id) \o PutU32(1800) \o PutU32(3)
        \o PutU32(5) \o CompactPeers(peers)

\* What can arrive on the socket of a connect to tracker t: from the tracker,
\* a response to the request, one with another transaction_id, one a byte
\* short and one a byte long; from elsewhere, a response to the request with
\* another connection_id.
ConnectDatagrams(src, t, tx) ==
    IF src = t
    THEN {ConnectResponseBytes(tx, TrackerConnectionId(t)),
          ConnectResponseBytes(OtherTx(tx), TrackerConnectionId(t)),
          Take(ConnectResponseBytes(tx, TrackerConnectionId(t)),
               CONNECT_RESPONSE_SIZE - 1),
          ConnectResponseBytes(tx, TrackerConnectionId(t)) \o <<0>>}
    ELSE {ConnectResponseBytes(tx, AlienConnectionId)}

\* What can arrive on the socket of an announce to tracker t: from the
\* tracker, a response with one of its peer lists, one with another
\* transaction_id, one with a byte after the peer list and one of 19 bytes;
\* from elsewhere, a response to the request listing another peer.
AnnounceDatagrams(src, t, tx) ==
    IF src = t
    THEN {AnnounceResponseBytes(tx, pl) : pl \in PeerLists(t)}
         \cup {AnnounceResponseBytes(OtherTx(tx), <<Peer1>>),
               AnnounceResponseBytes(tx, <<Peer1>>) \o <<10>>,
               Take(AnnounceResponseBytes(tx, <<>>),
                    ANNOUNCE_HEADER_SIZE - 1)}
    ELSE {AnnounceResponseBytes(tx, <<AlienPeer, AlienPeer, AlienPeer>>)}

----------------------------------------------------------------------------
(* tracker_stream.rs: Trackers::new and Trackers::announce, as main calls *)
(* them one after the other                                               *)

Waiting(t) == tpc[t] \in {"c_wait", "a_wait"}

\* A local of an operation (bytes_recv, the timer) once the future of tracker
\* t is at p: it is gone when the operation has returned.
LocalAfter(x, p, gone) == IF p \in {"c_wait", "a_wait"} THEN x ELSE gone

\* `if tracker != addr { continue; }` taking a datagram from any address
FromTrackerAny(src, t) == TRUE

\* the negation of `tracker != addr` / `tracker != s_addr`
FromTracker(src, t) == src = t

\* The entry of Trackers.connections made for tracker t
ConnectionOf(t) ==
    CHOOSE c \in {connections[i] : i \in DOMAIN connections} : c.addr = t

InConnections(t) == \E i \in DOMAIN connections : connections[i].addr = t

\* host_port.to_socket_addrs()?: the host of a dead tracker does not resolve
Resolves(t) == IF t \in DeadTrackers THEN {FALSE} ELSE BOOLEAN

\* TrackerConnection::connect up to the timeout of handshake: resolving the
\* host, binding the socket or sending the request may fail; otherwise one
\* ConnectRequest is on its way and the 3 seconds start.
ConnectSend(t) ==
    /\ tphase = "new"
    /\ tpc[t] = "start"
    /\ \E sent \in Resolves(t) : \E tx \in TxIds :
          IF sent
          THEN /\ tpc' = [tpc EXCEPT ![t] = "c_wait"]
               /\ ttx' = [ttx EXCEPT ![t] = tx]
               /\ tout' = [tout EXCEPT ![t] =
                     Append(@, ConnectRequestToBytes(ConnectRequestNew(tx)))]
               /\ UNCHANGED resolved
          ELSE /\ tpc' = [tpc EXCEPT ![t] = "c_failed"]
               /\ resolved' = Append(resolved,
                     [addr |-> t, res |-> "err",
                      connection_id |-> I64(0, 0)])
               /\ UNCHANGED <<ttx, tout>>
    /\ UNCHANGED <<tphase, telapsed, tbuf, trecv, taliens, connections,
                   aresolved, announced>>
    /\ UNCHANGED <<sessionVars, codecVars, connVars, chan,
                   otherVars>>

\* handshake: one turn of the loop inside the timeout, and what follows the
\* loop when it breaks
ConnectRecv(t) ==
    /\ tphase = "new"
    /\ tpc[t] = "c_wait"
    /\ \E src \in Sources(t) : \E d \in ConnectDatagrams(src, t, ttx[t]) :
          LET r == RecvFrom(tbuf[t], d, CONNECT_RESPONSE_SIZE)
              response == ConnectResponseFromBytes(r.buf)
          IN  /\ IF ~FromTracker(src, t)
                 THEN /\ taliens[t] < MaxAliens
                      /\ taliens' = [taliens EXCEPT ![t] = @ + 1]
                      /\ UNCHANGED <<tpc, trecv, resolved>>
                 ELSE /\ trecv' = [trecv EXCEPT ![t] = d]
                      /\ UNCHANGED taliens
                      /\ IF r.n # CONNECT_RESPONSE_SIZE
                            \/ response.transaction_id # ttx[t]
                         THEN /\ tpc' = [tpc EXCEPT ![t] = "c_failed"]
                              /\ resolved' = Append(resolved,
                                    [addr |-> t, res |-> "err",
                                     connection_id |-> I64(0, 0)])
                         ELSE /\ tpc' = [tpc EXCEPT ![t] = "connected"]
                              /\ resolved' = Append(resolved,
                                    [addr |-> t, res |-> "ok",
                                     connection_id |-> response.connection_id])
              /\ tbuf' = [tbuf EXCEPT ![t] =
                    LocalAfter(r.buf, tpc'[t], <<>>)]
    /\ telapsed' = [telapsed EXCEPT ![t] = LocalAfter(@, tpc'[t], 0)]
    /\ UNCHANGED <<tphase, ttx, tout, connections, aresolved, announced>>
    /\ UNCHANGED <<sessionVars, codecVars, connVars, chan,
                   otherVars>>

\* A second passes while an operation waits inside its timeout.
Tick(t) ==
    /\ tphase \in {"new", "announce"}
    /\ Waiting(t)
    /\ telapsed[t] < TimeoutSecs
    /\ telapsed' = [telapsed EXCEPT ![t] = @ + 1]
    /\ UNCHANGED <<tphase, tpc, ttx, tout, tbuf, trecv, taliens, resolved,
                   connections, aresolved, announced>>
    /\ UNCHANGED <<sessionVars, codecVars, connVars, chan,
                   otherVars>>

\* handshake sending its request again when the 3 seconds are over
ConnectTimeoutRetry(t) ==
    /\ tphase = "new"
    /\ tpc[t] = "c_wait"
    /\ telapsed[t] = TimeoutSecs
    /\ tout' = [tout EXCEPT ![t] =
          Append(@, ConnectRequestToBytes(ConnectRequestNew(ttx[t])))]
    /\ telapsed' = [telapsed EXCEPT ![t] = 0]
    /\ UNCHANGED <<tphase, tpc, ttx, tbuf, trecv, taliens, resolved,
                   connections, aresolved, announced>>
    /\ UNCHANGED <<sessionVars, codecVars, connVars, chan,
                   otherVars>>

\* handshake: tokio::time::timeout(..).await? returns Elapsed
ConnectTimeout(t) ==
    /\ tphase = "new"
    /\ tpc[t] = "c_wait"
    /\ telapsed[t] = TimeoutSecs
    /\ tpc' = [tpc EXCEPT ![t] = "c_failed"]
    /\ resolved' = Append(resolved,
          [addr |-> t, res |-> "err", connection_id |-> I64(0, 0)])
    /\ UNCHANGED <<tphase, ttx, tout, telapsed, tbuf, trecv, taliens,
                   connections, aresolved, announced>>
    /\ UNCHANGED <<sessionVars, codecVars, connVars, chan,
                   otherVars>>

\* Trackers::new returns once every connect has resolved; main then calls
\* trackers.announce, which makes one announce future per connection.
TrackersNew ==
    /\ tphase = "new"
    /\ \A t \in DOMAIN tpc : tpc[t] \in {"c_failed", "connected"}
    /\ connections' = FilterOk(resolved)
    /\ tphase' = "announce"
    /\ telapsed' = [t \in DOMAIN tpc |-> 0]
    /\ tbuf' = [t \in DOMAIN tpc |-> <<>>]
    /\ trecv' = [t \in DOMAIN tpc |-> <<>>]
    /\ taliens' = [t \in DOMAIN tpc |-> 0]
    /\ UNCHANGED <<tpc, ttx, tout, resolved, aresolved, announced>>
    /\ UNCHANGED <<sessionVars, codecVars, connVars, chan,
                   otherVars>>

\* TrackerConnection::announce up to its timeout: resolving, binding or
\* sending may fail; otherwise one AnnounceRequest is on its way.
AnnounceSend(t) ==
    /\ tphase = "announce"
    /\ tpc[t] = "connected"
    /\ InConnections(t)
    /\ \E sent \in BOOLEAN : \E tx \in TxIds : \E key \in Keys :
          LET descriptor ==
                  AnnounceRequestDescriptor(ConnectionOf(t).connection_id,
                                            LocalPeerId, LocalInfoHash)
              request == AnnounceRequestNew(descriptor, tx, key)
          IN  IF sent
              THEN /\ tpc' = [tpc EXCEPT ![t] = "a_wait"]
                   /\ ttx' = [ttx EXCEPT ![t] = tx]
                   /\ tout' = [tout EXCEPT ![t] =
                         Append(@, AnnounceRequestToBytes(request))]
              ELSE /\ tpc' = [tpc EXCEPT ![t] = "a_failed"]
                   /\ UNCHANGED <<ttx, tout>>
    /\ UNCHANGED <<tphase, telapsed, tbuf, trecv, taliens, resolved,
                   connections, aresolved, announced>>
    /\ UNCHANGED <<sessionVars, codecVars, connVars, chan,
                   otherVars>>

\* announce: one turn of the loop inside the timeout, and what follows the
\* loop when it breaks. A panic of from_bytes unwinds through
\* Trackers::announce and main.
AnnounceRecv(t) ==
    /\ tphase = "announce"
    /\ tpc[t] = "a_wait"
    /\ \E src \in Sources(t) : \E d \in AnnounceDatagrams(src, t, ttx[t]) :
          LET r == RecvFrom(tbuf[t], d, ANNOUNCE_RECV_SIZE)
              response == AnnounceResponseFromBytes(r.buf, r.n)
          IN  /\ IF ~FromTracker(src, t)
                 THEN /\ taliens[t] < MaxAliens
                      /\ taliens' = [taliens EXCEPT ![t] = @ + 1]
                      /\ UNCHANGED <<tphase, tpc, trecv, aresolved>>
                 ELSE /\ trecv' = [trecv EXCEPT ![t] = d]
                      /\ UNCHANGED taliens
                      /\ IF response.panic
                         THEN /\ tpc' = [tpc EXCEPT ![t] = "a_panicked"]
                              /\ tphase' = "panicked"
                              /\ UNCHANGED aresolved
                         ELSE IF response.transaction_id # ttx[t]
                         THEN /\ tpc' = [tpc EXCEPT ![t] = "a_failed"]
                              /\ UNCHANGED <<tphase, aresolved>>
                         ELSE /\ tpc' = [tpc EXCEPT ![t] = "a_ok"]
                              /\ aresolved' = Append(aresolved, response.peers)
                              /\ UNCHANGED tphase
              /\ tbuf' = [tbuf EXCEPT ![t] =
                    LocalAfter(r.buf, tpc'[t], <<>>)]
    /\ telapsed' = [telapsed EXCEPT ![t] = LocalAfter(@, tpc'[t], 0)]
    /\ UNCHANGED <<ttx, tout, resolved, connections, announced>>
    /\ UNCHANGED <<sessionVars, codecVars, connVars, chan,
                   otherVars>>

\* announce: tokio::time::timeout(..).await? returns Elapsed
AnnounceTimeout(t) ==
    /\ tphase = "announce"
    /\ tpc[t] = "a_wait"
    /\ telapsed[t] = TimeoutSecs
    /\ tpc' = [tpc EXCEPT ![t] = "a_failed"]
    /\ UNCHANGED <<tphase, ttx, tout, telapsed, tbuf, trecv, taliens,
                   resolved, connections, aresolved, announced>>
    /\ UNCHANGED <<sessionVars, codecVars, connVars, chan,
                   otherVars>>

\* Trackers::announce: every future has resolved; flatten, retain, return
TrackersAnnounce ==
    /\ tphase = "announce"
    /\ \A t \in DOMAIN tpc :
          InConnections(t) => tpc[t] \in {"a_ok", "a_failed"}
    /\ announced' = Retain(Flatten(aresolved), {})
    /\ tphase' = "returned"
    /\ UNCHANGED <<tpc, ttx, tout, telapsed, tbuf, trecv, taliens, resolved,
                   connections, aresolved>>
    /\ UNCHANGED <<sessionVars, codecVars, connVars, chan,
                   otherVars>>


TrackerInit ==
    /\ tphase = "new"
    /\ tpc = [t \in TrackerUrls |-> "start"]
    /\ ttx = [t \in TrackerUrls |-> 0]
    /\ tout = [t \in TrackerUrls |-> <<>>]
    /\ telapsed = [t \in TrackerUrls |-> 0]
    /\ tbuf = [t \in TrackerUrls |-> <<>>]
    /\ trecv = [t \in TrackerUrls |-> <<>>]
    /\ taliens = [t \in TrackerUrls |-> 0]
    /\ resolved = <<>>
    /\ connections = <<>>
    /\ aresolved = <<>>
    /\ announced = <<>>

TrackerNext ==
    \/ \E t \in TrackerUrls : ConnectSend(t)
    \/ \E t \in TrackerUrls : ConnectRecv(t)
    \/ \E t \in TrackerUrls : Tick(t)
    \/ \E t \in TrackerUrls : ConnectTimeout(t)
    \/ TrackersNew
    \/ \E t \in TrackerUrls : AnnounceSend(t)
    \/ \E t \in TrackerUrls : AnnounceRecv(t)
    \/ \E t \in TrackerUrls : AnnounceTimeout(t)
    \/ TrackersAnnounce

InitTracker ==
    SessionInit /\ ChanIdle /\ CodecIdle /\ TrackerInit /\ ConnIdle
        /\ OthersIdle

SpecTracker == InitTracker /\ [][TrackerNext]_vars

----------------------------------------------------------------------------
(* peer_connection.rs: the frames *)

MaxConnEvents == 3

MaxOutbound == 2

\* PeerMessage of peer_connection.rs: a message tagged with the peer's address
PeerConnectionMessage(message_type, payload, addr) ==
    [message_type |-> message_type, payload |-> payload, addr |-> addr]

\* PeerMessageType::raw_value
RawValue(message_type) ==
    CHOOSE v \in 0..9 : MessageTypes[v + 1] = message_type

Disconnected == [kind |-> "Disconnected"]

\* anyhow::Result<(frame, usize)>: ok is FALSE for Err
Parsed(ok, frame, size) == [ok |-> ok, frame |-> frame, size |-> size]

ParseErr == Parsed(FALSE, NoFrame, 0)

\* Handshake::from_bytes
HandshakeFromBytes(bytes) ==
    IF Len(bytes) <= 68 THEN ParseErr
    ELSE LET pstrlen == bytes[1]
         IN  IF pstrlen # 19 THEN ParseErr
             ELSE LET pstr         == SubSeq(bytes, 2, 1 + pstrlen)
                      end_reserved == 9 + pstrlen
                  IN  IF pstr # BITTORRENT_PROTOCOL THEN ParseErr
                      ELSE Parsed(TRUE,
                                  HandshakeFrame(
                                      pstr,
                                      SubSeq(bytes, end_reserved + 1,
                                             end_reserved + 20),
                                      SubSeq(bytes, end_reserved + 21,
                                             end_reserved + 40)),
                                  49 + pstrlen)

\* Handshake::to_bytes
HandshakeToBytes(h) ==
    <<Len(h.pstr) % 256>> \o h.pstr \o Fill(8, 0) \o h.info_hash \o h.peer_id

\* Data::from_bytes
DataFromBytes(bytes) ==
    IF Len(bytes) < 4 THEN ParseErr
    ELSE LET message_len == ReadU32(bytes)
         IN  IF message_len = 0 THEN Parsed(TRUE, DataFrame(0, <<>>), 4)
             ELSE IF Len(bytes) < 5 THEN ParseErr
             ELSE LET message_id   == bytes[5]
                      payload_size == message_len - 1
                  IN  IF message_id > 9 THEN ParseErr
                      ELSE IF 5 + payload_size > Len(bytes) THEN ParseErr
                      ELSE Parsed(TRUE,
                                  DataFrame(message_id,
                                            SubSeq(bytes, 6, 5 + payload_size)),
                                  5 + payload_size)

\* Data::to_bytes
DataToBytes(d) ==
    PutU32(1 + Len(d.payload)) \o <<d.message_id>> \o d.payload

\* <PeerFrame as Frame>::from_bytes; ok is FALSE for None
PeerFrameFromBytes(bytes) ==
    LET h == HandshakeFromBytes(bytes)
    IN  IF h.ok THEN h ELSE DataFromBytes(bytes)

\* <PeerFrame as Frame>::to_bytes
PeerFrameToBytes(f) ==
    IF f.kind = "Handshake" THEN HandshakeToBytes(f) ELSE DataToBytes(f)

----------------------------------------------------------------------------
(* connection.rs: TcpConnection *)

READ_BUF_SIZE == 4096

Min(x, y) == IF x < y THEN x ELSE y

\* read_buf[..r_cur] after a read of the bytes d, with r_cur already advanced:
\* the read writes d at the start of read_buf, over what was there; what lies
\* behind the old r_cur is zeroes.
ReadInto(buf, d) ==
    d \o Drop(buf, Len(d)) \o Fill(Min(Len(d), Len(buf)), 0)

\* The `while let Some((frame, len)) = T::from_bytes(&read_buf[..r_cur])` loop
\* on read_buf[..r_cur] = buf: the frames, what is left of read_buf[..r_cur],
\* and the bytes split off read_buf
TakeFrames[buf \in Seq(0..255)] ==
    LET p == PeerFrameFromBytes(buf)
    IN  IF ~p.ok THEN [frames |-> <<>>, buf |-> buf, taken |-> 0]
        ELSE CHOOSE r \in {[frames |-> <<p.frame>> \o t.frames,
                             buf |-> t.buf, taken |-> p.size + t.taken] :
                               t \in {TakeFrames[Drop(buf, p.size)]}} : TRUE

\* TcpConnection::read and try_read once the socket gave the bytes d (Ok(n)
\* with n > 0): advance r_cur, double the buffer when it is full, take the
\* frames. panic is TRUE when r_cur is beyond the buffer, so that the slice
\* read_buf[..r_cur] is out of range.
AfterRead(buf, len, d) ==
    LET cur   == Len(buf) + Len(d)
        grown == IF cur = len THEN 2 * len ELSE len
    IN  IF cur > grown
        THEN [panic |-> TRUE, frames |-> <<>>, buf |-> buf, len |-> len]
        ELSE LET t == TakeFrames[ReadInto(buf, d)]
             IN  [panic |-> FALSE, frames |-> t.frames, buf |-> t.buf,
                  len |-> grown - t.taken]

\* try_read after WouldBlock: nothing was read, the frames are taken
AfterWouldBlock(buf, len) ==
    LET t == TakeFrames[buf]
    IN  [panic |-> FALSE, frames |-> t.frames, buf |-> t.buf,
         len |-> len - t.taken]

\* What a read of the socket returns: "err" for an error, "zero" for Ok(0),
\* "block" for WouldBlock, "data" for Ok(n) with n > 0
ReadOutcome(state, avail, len) ==
    IF state = "reset" THEN "err"
    ELSE IF len = 0 THEN "zero"
    ELSE IF avail # <<>> THEN "data"
    ELSE IF state = "eof" THEN "zero"
    ELSE "block"

----------------------------------------------------------------------------
(* peer_connection.rs: PeerConnection::connect and handle_messages *)

RECURSIVE ForwardSilentDisconnect(_, _, _)
\* The `for frame in frames` loop with the Disconnected arm leaving without a
\* message
ForwardSilentDisconnect(frames, sent, addr) ==
    IF frames = <<>> THEN [sent |-> sent, bail |-> "none"]
    ELSE LET frame == Head(frames)
         IN  CASE frame.kind = "Handshake" ->
                    [sent |-> sent, bail |-> "Multiple handshake responses"]
               [] frame.kind = "Data" ->
                    ForwardSilentDisconnect(
                        Tail(frames),
                        Append(sent,
                               PeerConnectionMessage(
                                   FromU8(frame.message_id), frame.payload,
                                   addr)),
                        addr)
               [] OTHER ->
                    [sent |-> sent, bail |-> "disconnected"]

RECURSIVE Forward(_, _, _)
\* The `for frame in frames` loop of handle_messages: sent is what has been
\* sent on self.sender, bail the error it leaves with ("none": it goes on)
Forward(frames, sent, addr) ==
    IF frames = <<>> THEN [sent |-> sent, bail |-> "none"]
    ELSE LET frame == Head(frames)
         IN  CASE frame.kind = "Handshake" ->
                    [sent |-> sent, bail |-> "Multiple handshake responses"]
               [] frame.kind = "Data" ->
                    Forward(Tail(frames),
                            Append(sent,
                                   PeerConnectionMessage(
                                       FromU8(frame.message_id), frame.payload,
                                       addr)),
                            addr)
               [] OTHER ->
                    [sent |-> Append(sent,
                                     PeerConnectionMessage("Cancel", <<>>,
                                                           addr)),
                     bail |-> "disconnected"]

\* PeerConnection::connect after conn.read(): the first frame is taken off,
\* and checked when it is a handshake; the others go through the same arms as
\* in handle_messages.
ConnectFrames(frames, sent, addr) ==
    IF frames = <<>> THEN [sent |-> sent, bail |-> "none"]
    ELSE IF Head(frames).kind = "Handshake"
            /\ Head(frames).info_hash # LocalInfoHash
    THEN [sent |-> sent, bail |-> "Bad infohash in handshake"]
    ELSE Forward(Tail(frames), sent, addr)

\* mpsc::Receiver::try_recv taking the newest message
TryRecvNewest(queue, alive) ==
    IF queue # <<>>
    THEN [res |-> "ok", message |-> queue[Len(queue)],
          queue |-> Take(queue, Len(queue) - 1)]
    ELSE IF alive THEN [res |-> "empty", message |-> NoMsg, queue |-> queue]
    ELSE [res |-> "disconnected", message |-> NoMsg, queue |-> queue]

\* mpsc::Receiver::try_recv
TryRecv(queue, alive) ==
    IF queue # <<>>
    THEN [res |-> "ok", message |-> Head(queue), queue |-> Tail(queue)]
    ELSE IF alive THEN [res |-> "empty", message |-> NoMsg, queue |-> queue]
    ELSE [res |-> "disconnected", message |-> NoMsg, queue |-> queue]

ConnEnded == conn_pc \in {"failed", "exited", "panicked"}

ConnLive == conn_pc \in {"first_read", "read", "recv"}

\* The frames the remote sends: the handshake with the torrent's hash,
\* Unchoke and Have(1). Every byte is below 128, so that the four bytes of a
\* length stay within 31 bits wherever the parser reads them.
ConnRemoteFrames ==
    {HandshakeFrame(BITTORRENT_PROTOCOL, LocalInfoHash, RemotePeerId),
     DataFrame(1, <<>>),
     DataFrame(4, PutU32(1))}

\* Where the remote's TCP may cut a frame in two segments: nowhere, or, for
\* a frame with a payload, after its third byte
ConnCuts(f) ==
    {Len(PeerFrameToBytes(f))}
        \cup {n \in {3} : f.kind = "Data" /\ f.payload # <<>>}

\* The messages the coordinator sends to the peer: Interested, and
\* Request(0, 0, 16384)
OutboundMessages(addr) ==
    {PeerConnectionMessage("Interested", <<>>, addr),
     PeerConnectionMessage("Request",
                           PutU32(0) \o PutU32(0) \o PutU32(16384), addr)}

\* The remote sends the rest of the frame it has begun, or the next frame,
\* whole or up to a cut.
ConnRemoteSend ==
    /\ ConnLive
    /\ net_state = "open"
    /\ conn_events < MaxConnEvents
    /\ IF rpending # <<>>
       THEN /\ net_in' = net_in \o rpending
            /\ rpending' = <<>>
            /\ UNCHANGED rframes
       ELSE \E f \in ConnRemoteFrames :
               \E n \in ConnCuts(f) :
                  /\ net_in' = net_in \o Take(PeerFrameToBytes(f), n)
                  /\ rpending' = Drop(PeerFrameToBytes(f), n)
                  /\ rframes' = Append(rframes, f)
    /\ ready' = TRUE
    /\ conn_events' = conn_events + 1
    /\ UNCHANGED <<conn_addr, conn_pc, conn_ret, read_buf, r_cur, read_len,
                   net_state, net_out, inbox, outbox, tx_alive, out_sent>>
    /\ UNCHANGED <<sessionVars, codecVars, trackerVars, chan,
                   otherVars>>

\* The remote closes the connection in order (FIN).
ConnRemoteClose ==
    /\ ConnLive
    /\ net_state = "open"
    /\ conn_events < MaxConnEvents
    /\ net_state' = "eof"
    /\ ready' = TRUE
    /\ conn_events' = conn_events + 1
    /\ UNCHANGED <<conn_addr, conn_pc, conn_ret, read_buf, r_cur, read_len,
                   net_in, net_out, inbox, outbox, tx_alive, out_sent,
                   rframes, rpending>>
    /\ UNCHANGED <<sessionVars, codecVars, trackerVars, chan,
                   otherVars>>

\* The connection is reset (RST).
ConnRemoteReset ==
    /\ ConnLive
    /\ net_state = "open"
    /\ conn_events < MaxConnEvents
    /\ net_state' = "reset"
    /\ ready' = TRUE
    /\ conn_events' = conn_events + 1
    /\ UNCHANGED <<conn_addr, conn_pc, conn_ret, read_buf, r_cur, read_len,
                   net_in, net_out, inbox, outbox, tx_alive, out_sent,
                   rframes, rpending>>
    /\ UNCHANGED <<sessionVars, codecVars, trackerVars, chan,
                   otherVars>>

\* The coordinator sends a message on the sender of the outbound channel.
CoordSend ==
    /\ ConnLive
    /\ tx_alive
    /\ Len(out_sent) < MaxOutbound
    /\ \E m \in OutboundMessages(conn_addr) :
          /\ outbox' = Append(outbox, m)
          /\ out_sent' = Append(out_sent, m)
    /\ UNCHANGED <<conn_addr, conn_pc, conn_ret, read_buf, r_cur, read_len,
                   net_in, net_state, ready, net_out, inbox, tx_alive,
                   rframes, rpending, conn_events>>
    /\ UNCHANGED <<sessionVars, codecVars, trackerVars, chan,
                   otherVars>>

\* The coordinator drops the sender of the outbound channel.
CoordDrop ==
    /\ ConnLive
    /\ tx_alive
    /\ tx_alive' = FALSE
    /\ UNCHANGED <<conn_addr, conn_pc, conn_ret, read_buf, r_cur, read_len,
                   net_in, net_state, ready, net_out, inbox, outbox, out_sent,
                   rframes, rpending, conn_events>>
    /\ UNCHANGED <<sessionVars, codecVars, trackerVars, chan,
                   otherVars>>

\* PeerConnection::connect up to conn.read(): TcpConnection::establish, then
\* the handshake is written.
ConnEstablish ==
    /\ conn_pc = "start"
    /\ read_buf' = <<>>
    /\ r_cur' = 0
    /\ read_len' = READ_BUF_SIZE
    /\ net_out' = PeerFrameToBytes(LocalHandshake)
    /\ conn_pc' = "first_read"
    /\ UNCHANGED <<conn_addr, conn_ret, net_in, net_state, ready, inbox,
                   outbox, tx_alive, out_sent, rframes, rpending, conn_events>>
    /\ UNCHANGED <<sessionVars, codecVars, trackerVars, chan,
                   otherVars>>

\* PeerConnection::connect from conn.read() on: TcpConnection::read returns
\* once the socket has bytes or has ended; the frames it took are checked and
\* forwarded. The read leaves the readiness set or cleared.
ConnFirstRead ==
    /\ conn_pc = "first_read"
    /\ net_in # <<>> \/ net_state # "open"
    /\ \E o \in {ReadOutcome(net_state, net_in, read_len)},
          n \in {Min(Len(net_in), read_len)} :
       \E r \in {AfterRead(read_buf, read_len, Take(net_in, n))} :
       \E c \in {ConnectFrames(r.frames, inbox, conn_addr)} :
           IF o # "data"
           THEN /\ conn_pc' = "failed"
                /\ UNCHANGED <<read_buf, r_cur, read_len, net_in, inbox, ready>>
           ELSE /\ net_in' = Drop(net_in, n)
                /\ ready' \in BOOLEAN
                /\ IF r.panic
                   THEN /\ conn_pc' = "panicked"
                        /\ r_cur' = r_cur + n
                        /\ UNCHANGED <<read_buf, read_len, inbox>>
                   ELSE /\ read_buf' = r.buf
                        /\ r_cur' = Len(r.buf)
                        /\ read_len' = r.len
                        /\ inbox' = c.sent
                        /\ conn_pc' = IF c.bail = "none" THEN "read"
                                      ELSE "failed"
    /\ UNCHANGED <<conn_addr, conn_ret, net_state, net_out, outbox, tx_alive,
                   out_sent, rframes, rpending, conn_events>>
    /\ UNCHANGED <<sessionVars, codecVars, trackerVars, chan,
                   otherVars>>

\* handle_messages from the top of the loop to the end of the `for`:
\* readable() returns once the readiness is set; try_read reads the socket
\* (WouldBlock clears the readiness) and takes the frames; an error becomes
\* the frame Disconnected; each frame is forwarded.
HmTryRead ==
    /\ conn_pc = "read"
    /\ ready
    /\ \E o \in {ReadOutcome(net_state, net_in, read_len)},
          n \in {Min(Len(net_in), read_len)} :
       \E r \in {IF o = "data"
                 THEN AfterRead(read_buf, read_len, Take(net_in, n))
                 ELSE AfterWouldBlock(read_buf, read_len)} :
       \E f \in {Forward(IF o \in {"err", "zero"} THEN <<Disconnected>>
                          ELSE r.frames,
                          inbox, conn_addr)} :
           /\ net_in' = IF o = "data" THEN Drop(net_in, n) ELSE net_in
           /\ ready' = IF o = "block" THEN FALSE ELSE ready
           /\ IF o \in {"err", "zero"}
              THEN /\ inbox' = f.sent
                   /\ conn_pc' = "exited"
                   /\ conn_ret' = f.bail
                   /\ UNCHANGED <<read_buf, r_cur, read_len>>
              ELSE IF r.panic
              THEN /\ conn_pc' = "panicked"
                   /\ r_cur' = r_cur + n
                   /\ UNCHANGED <<read_buf, read_len, inbox, conn_ret>>
              ELSE /\ read_buf' = r.buf
                   /\ r_cur' = Len(r.buf)
                   /\ read_len' = r.len
                   /\ inbox' = f.sent
                   /\ conn_pc' = IF f.bail = "none" THEN "recv" ELSE "exited"
                   /\ conn_ret' = IF f.bail = "none" THEN conn_ret ELSE f.bail
    /\ UNCHANGED <<conn_addr, net_state, net_out, outbox, tx_alive, out_sent,
                   rframes, rpending, conn_events>>
    /\ UNCHANGED <<sessionVars, codecVars, trackerVars, chan,
                   otherVars>>

\* handle_messages from receiver.try_recv() to the end of the loop body: a
\* message is written to the socket as one Data frame; write_all fails on a
\* connection that was reset.
HmTryRecv ==
    /\ conn_pc = "recv"
    /\ \E t \in {TryRecv(outbox, tx_alive)} :
           /\ outbox' = t.queue
           /\ CASE t.res = "ok" /\ net_state # "reset" ->
                     /\ net_out' = net_out \o
                           PeerFrameToBytes(
                               DataFrame(RawValue(t.message.message_type),
                                         t.message.payload))
                     /\ conn_pc' = "read"
                     /\ UNCHANGED conn_ret
                [] t.res = "ok" /\ net_state = "reset" ->
                     /\ conn_pc' = "exited"
                     /\ conn_ret' = "Failed to write to peer: "
                     /\ UNCHANGED net_out
                [] t.res = "empty" ->
                     /\ conn_pc' = "read"
                     /\ UNCHANGED <<net_out, conn_ret>>
                [] OTHER ->
                     /\ conn_pc' = "exited"
                     /\ conn_ret' = "oneshot channel closed"
                     /\ UNCHANGED net_out
    /\ UNCHANGED <<conn_addr, read_buf, r_cur, read_len, net_in, net_state,
                   ready, inbox, tx_alive, out_sent, rframes, rpending,
                   conn_events>>
    /\ UNCHANGED <<sessionVars, codecVars, trackerVars, chan,
                   otherVars>>

\* A PeerConnection is about to be created for one of the addresses; the
\* coordinator holds the sender of its outbound channel.
ConnInit ==
    /\ conn_addr \in Addrs
    /\ conn_pc = "start"
    /\ conn_ret = "none"
    /\ read_buf = <<>>
    /\ r_cur = 0
    /\ read_len = 0
    /\ net_in = <<>>
    /\ net_state = "open"
    /\ ready = FALSE
    /\ net_out = <<>>
    /\ inbox = <<>>
    /\ outbox = <<>>
    /\ tx_alive = TRUE
    /\ out_sent = <<>>
    /\ rframes = <<>>
    /\ rpending = <<>>
    /\ conn_events = 0

\* The steps of the task that runs connect and handle_messages
ConnTask == ConnEstablish \/ ConnFirstRead \/ HmTryRead \/ HmTryRecv

ConnNext ==
    \/ ConnRemoteSend
    \/ ConnRemoteClose
    \/ ConnRemoteReset
    \/ CoordSend
    \/ CoordDrop
    \/ ConnEstablish
    \/ ConnFirstRead
    \/ HmTryRead
    \/ HmTryRecv

InitConn ==
    SessionInit /\ ChanIdle /\ CodecIdle /\ TrackerIdle /\ ConnInit
        /\ OthersIdle

SpecConn == InitConn /\ [][ConnNext]_vars

\* The runtime runs the task whenever it can take a step.
SpecConnFair == SpecConn /\ WF_vars(ConnTask)

----------------------------------------------------------------------------
(* codec.rs: Framed, the Stream over an AsyncRead and a Decoder. The module *)
(* has one Decoder, the MockDecoder of its tests: a frame is a u32, little  *)
(* endian, and the number 0 is a decode error.                              *)

MaxFramedFrames == 3

\* The size of the array poll_next reads into
FRAMED_READ_SIZE == 1024

\* LittleEndian::read_u32
ReadU32LittleEndian(b) ==
    b[1] + 256 * b[2] + 65536 * b[3] + 16777216 * b[4]

\* BytesMut::put_u32_le
PutU32LittleEndian(n) ==
    <<n % 256, (n \div 256) % 256, (n \div 65536) % 256, (n \div 16777216) % 256>>

\* MockDecoder::decode: Ok(None) below 4 bytes; otherwise the 4 bytes are
\* taken off the buffer, and the number is the frame, or an error when 0
MockDecode(buf) ==
    IF Len(buf) < 4 THEN [res |-> "none", frame |-> 0, buf |-> buf]
    ELSE LET number == ReadU32LittleEndian(buf)
         IN  [res   |-> IF number = 0 THEN "err" ELSE "some",
              frame |-> number,
              buf   |-> Drop(buf, 4)]

\* What poll_read of the transport may do when inner bytes are left to give:
\* an error, Ok with n bytes (no byte: the transport is at its end). A
\* transport that is not ready makes poll_next return Pending and changes
\* nothing.
PollRead(inner) ==
    {[kind |-> "err", n |-> 0]}
        \cup {[kind |-> "ok", n |-> n] :
                 n \in (IF inner = <<>> THEN {0}
                        ELSE 1..Min(Len(inner), FRAMED_READ_SIZE))}

\* Poll::Ready(item) of poll_next with the fields it leaves: item is "some"
\* or "none", end says why it is None
Polled(item, frame, end, read, inner) ==
    [item |-> item, frame |-> frame, end |-> end, read |-> read,
     inner |-> inner]

\* <Framed as Stream>::poll_next with rd what poll_read does if it is called
PollNext(read, inner, rd) ==
    LET d == MockDecode(read)
    IN  CASE d.res = "some" -> Polled("some", d.frame, "none", d.buf, inner)
          [] d.res = "err"  -> Polled("none", 0, "decode", d.buf, inner)
          [] OTHER ->
               IF rd.kind = "err" THEN Polled("none", 0, "io", read, inner)
               ELSE IF rd.n = 0 THEN Polled("none", 0, "eof", read, inner)
               ELSE LET e == MockDecode(read \o Take(inner, rd.n))
                    IN  CASE e.res = "some" ->
                               Polled("some", e.frame, "none", e.buf,
                                      Drop(inner, rd.n))
                          [] e.res = "none" ->
                               Polled("none", 0, "partial", e.buf,
                                      Drop(inner, rd.n))
                          [] OTHER ->
                               Polled("none", 0, "decode", e.buf,
                                      Drop(inner, rd.n))

\* The numbers the transport's bytes may hold: those of test_read_frame, and
\* the one that does not decode
MockNumbers == {0, 2, 5, 11}

\* The sequences of at most n numbers
NumberSeqs(n) == UNION {[1..k -> MockNumbers] : k \in 0..n}

RECURSIVE PutAll(_)
\* read.put_u32_le(*val) for each val
PutAll(numbers) ==
    IF numbers = <<>> THEN <<>>
    ELSE PutU32LittleEndian(Head(numbers)) \o PutAll(Tail(numbers))

\* while let Some(frame) = framed.next().await: one poll_next that is Ready
FramedPollNext ==
    /\ framed_pc = "next"
    /\ \E rd \in PollRead(framed_inner) :
       \E r \in {PollNext(framed_read, framed_inner, rd)} :
           /\ framed_read' = r.read
           /\ framed_inner' = r.inner
           /\ framed_end' = r.end
           /\ IF r.item = "some"
              THEN /\ framed_out' = Append(framed_out, r.frame)
                   /\ UNCHANGED framed_pc
              ELSE /\ framed_pc' = "ended"
                   /\ UNCHANGED framed_out
    /\ UNCHANGED framed_bytes
    /\ UNCHANGED <<sessionVars, codecVars, trackerVars, connVars, chan,
                   spawnVars>>

\* decoder.framed(tcp_stream) on a transport that holds the bytes of some
\* numbers
FramedInit ==
    /\ framed_bytes \in {PutAll(ns) : ns \in NumberSeqs(MaxFramedFrames)}
    /\ framed_inner = framed_bytes
    /\ framed_read = <<>>
    /\ framed_out = <<>>
    /\ framed_pc = "next"
    /\ framed_end = "none"

FramedNextStep == FramedPollNext

InitFramed ==
    SessionInit /\ ChanIdle /\ CodecIdle /\ TrackerIdle /\ ConnIdle
        /\ FramedInit /\ SpawnIdle

SpecFramed == InitFramed /\ [][FramedNextStep]_vars

----------------------------------------------------------------------------
(* main.rs: the sessions main spawns, one for each address that            *)
(* Trackers::announce returned, each registering under the address of its  *)
(* connection and removing that entry in cleanup.                          *)

\* The announce responses that came back Ok
MaxResponses == 2

\* The peer lists of the responses: every list a tracker may answer with
ResponseLists == UNION {PeerLists(t) : t \in TrackerUrls}

\* A task spawned for addr, at position p
SpawnedTask(addr, p) == [addr |-> addr, pc |-> p]

\* The end of Trackers::announce: the lists are flattened and the addresses
\* seen before are dropped
SpAnnounce ==
    /\ sp_pc = "announce"
    /\ sp_peers' = Retain(Flatten(sp_resolved), {})
    /\ sp_next' = 1
    /\ sp_pc' = "spawn"
    /\ UNCHANGED <<sp_resolved, sp_tasks, sp_registry>>
    /\ UNCHANGED <<sessionVars, codecVars, trackerVars, connVars, chan,
                   framedVars>>

\* for addr in peers.into_iter() { tokio::spawn(peer_process(state, addr)) }:
\* one iteration, or the end of the loop
SpSpawn ==
    /\ sp_pc = "spawn"
    /\ IF sp_next <= Len(sp_peers)
       THEN /\ sp_tasks' = Append(sp_tasks,
                                  SpawnedTask(sp_peers[sp_next], "start"))
            /\ sp_next' = sp_next + 1
            /\ UNCHANGED sp_pc
       ELSE /\ sp_pc' = "run"
            /\ UNCHANGED <<sp_tasks, sp_next>>
    /\ UNCHANGED <<sp_resolved, sp_peers, sp_registry>>
    /\ UNCHANGED <<sessionVars, codecVars, trackerVars, connVars, chan,
                   framedVars>>

\* peer_process of task i up to the end of Peer::new: it fails before
\* Peer::new, or Peer::new inserts the task's sender under peer_addr(), the
\* address the task connected to
SpRegister(i) ==
    /\ i \in DOMAIN sp_tasks
    /\ sp_tasks[i].pc = "start"
    /\ \E ok \in BOOLEAN :
          IF ok
          THEN /\ sp_registry' = MapInsert(sp_registry, sp_tasks[i].addr, i)
               /\ sp_tasks' = [sp_tasks EXCEPT ![i].pc = "registered"]
          ELSE /\ sp_tasks' = [sp_tasks EXCEPT ![i].pc = "ended"]
               /\ UNCHANGED sp_registry
    /\ UNCHANGED <<sp_pc, sp_resolved, sp_peers, sp_next>>
    /\ UNCHANGED <<sessionVars, codecVars, trackerVars, connVars, chan,
                   framedVars>>

\* peer_process of task i from its pump to its end: cleanup removes the
\* entry under peer_addr(); a panic, or peer_addr() failing, ends the task
\* with the entry left
SpEnd(i) ==
    /\ i \in DOMAIN sp_tasks
    /\ sp_tasks[i].pc = "registered"
    /\ \E cleaned \in BOOLEAN :
          sp_registry' = IF cleaned
                         THEN MapRemove(sp_registry, sp_tasks[i].addr)
                         ELSE sp_registry
    /\ sp_tasks' = [sp_tasks EXCEPT ![i].pc = "ended"]
    /\ UNCHANGED <<sp_pc, sp_resolved, sp_peers, sp_next>>
    /\ UNCHANGED <<sessionVars, codecVars, trackerVars, connVars, chan,
                   framedVars>>

\* Trackers::announce has collected the responses of its trackers
SpawnInit ==
    /\ sp_pc = "announce"
    /\ sp_resolved \in UNION {[1..k -> ResponseLists] : k \in 0..MaxResponses}
    /\ sp_peers = <<>>
    /\ sp_next = 0
    /\ sp_tasks = <<>>
    /\ sp_registry = <<>>

\* A task spawned so far, by its place in the order of spawning
SpawnedIds == 1..(MaxResponses * 3)

SpawnNext ==
    \/ SpAnnounce
    \/ SpSpawn
    \/ \E i \in SpawnedIds : SpRegister(i)
    \/ \E i \in SpawnedIds : SpEnd(i)

InitSpawn ==
    SessionInit /\ ChanIdle /\ CodecIdle /\ TrackerIdle /\ ConnIdle
        /\ FramedIdle /\ SpawnInit

SpecSpawn == InitSpawn /\ [][SpawnNext]_vars

----------------------------------------------------------------------------
(* Claims *)

Registered(a) == a \in DOMAIN peer_channels \/ a \in DOMAIN peer_state

\* The session wrote the local handshake to the remote before anything else.
HandshakeSent(a) ==
    Take(wire[a], HandshakeLen) = HandshakeEncode(LocalHandshake)

\* The first frame the session received is a handshake with the local hash.
GoodFirst(a) ==
    /\ first[a].res = "some"
    /\ first[a].kind = "Handshake"
    /\ first[a].info_hash = LocalInfoHash

C1_Gate ==
    \A a \in Addrs :
        /\ (Registered(a) \/ msg[a] # NoMsg) => (HandshakeSent(a) /\ GoodFirst(a))
        /\ (first[a].res # "pending" /\ ~GoodFirst(a))
              => (pc[a] = "failed" /\ ~Registered(a))

C1_GateStep ==
    \A a \in Addrs :
        (pc[a] = "await_hs" /\ pc'[a] = "failed")
            => UNCHANGED <<peer_channels, peer_state>>

\* C1: a peer is registered, and its data frames are applied, only after the
\* local handshake was sent and the first frame received was a handshake with
\* the local info_hash; when the first frame is a data frame, carries another
\* info_hash, fails to decode, or the stream ends, the session ends with an
\* error and the registry is unchanged.
C1_HandshakeGate == []C1_Gate /\ [][C1_GateStep]_vars

\* C1 witness: one peer is registered and has had an Unchoke applied, while
\* the session of another ended on a data frame received first.
C1_Witness ==
    \E a, b \in Addrs :
        /\ a \in DOMAIN peer_state /\ ~peer_state[a].am_choked
        /\ first[b].res = "some" /\ first[b].kind = "Data"
        /\ pc[b] = "failed"

InWriteSection(a) ==
    pc[a] \in {"new_ch", "hm_locked", "cl_ch"}

\* C2: whenever the write guard is not held (so in every state a reader can
\* see) the two maps have the same keys; a write guard excludes readers and
\* other writers; every insert, remove and update happens under the write
\* guard; and what the status loop read under its read guard is still true
\* while it holds the guard.
C2_RegistryConsistent ==
    /\ (writer = NoTask => DOMAIN peer_channels = DOMAIN peer_state)
    /\ (writer # NoTask => readers = {})
    /\ \A a \in Addrs : InWriteSection(a) => writer = a
    /\ (main_pc = "fold" =>
            /\ "main" \in readers
            /\ main_peers = Cardinality(DOMAIN peer_state)
            /\ UnchokedPeers <= main_peers)

\* C2 witness: the status loop holds its read guard over a registry of one
\* peer while that peer's session waits to apply a message and another waits
\* to register.
C2_Witness ==
    /\ main_pc = "fold"
    /\ main_peers = 1
    /\ \E a, b \in Addrs : pc[a] = "hm_wait" /\ pc[b] = "new_wait"

\* C3: a session that has ended, for whatever reason, has its address in
\* neither map, and every entry of peer_channels has a live receiver.
C3_EndedIsUnregistered ==
    \A a \in Addrs :
        /\ Ended(a) => ~Registered(a)
        /\ a \in DOMAIN peer_channels => rx_alive[a]

\* C4: applying a keep-alive (a frame of length 0) changes no peer state.
C4_KeepAliveNoChange ==
    [][\A a \in Addrs :
          (pc[a] = "hm_locked" /\ consumed[a] = KeepAlive)
              => peer_state' = peer_state]_vars

\* The buffer is a proper prefix of the encoding of a data frame with an id in
\* 0..9.
ValidDataPrefix(b) ==
    \E f \in CodecDataFrames :
        /\ Len(b) < Len(DataEncode(f))
        /\ b = Take(DataEncode(f), Len(b))

\* C5: on every proper prefix of the encoding of a valid data frame,
\* PeerCodec::decode returns incomplete and leaves the buffer unchanged; it
\* returns neither an error nor a frame.
C5_PrefixIsIncomplete ==
    (clast.res # "idle" /\ ValidDataPrefix(clast.before))
        => (clast.res = "none" /\ clast.after = clast.before)


\* The frame the session took from the stream is a data frame with an id
\* outside 0..9.
BadIdConsumed(a) ==
    LET d == DataDecode(consumed[a])
    IN  d.res = "some" /\ consumed[a] # KeepAlive /\ d.frame.message_id \notin 0..9

\* C6: a data frame with an id outside 0..9 ends the session through the
\* error path: it returns an error and its peer is unregistered.
C6_BadIdIsError ==
    \A a \in Addrs :
        BadIdConsumed(a) =>
            /\ pc[a] \in {"cl_wait", "cl_ch", "failed"}
            /\ Ended(a) => ~Registered(a)

ControlTypes == {"Choke", "Unchoke", "Interested", "NotInterested"}

Flags == {"choked", "interested", "am_choked", "am_interested"}

\* The step that applies the message of session a: the end of handle_message
Applies(a) == pc[a] = "hm_locked" /\ pc'[a] # "hm_locked"

OthersUnchanged(a) ==
    /\ DOMAIN peer_state' = DOMAIN peer_state
    /\ \A b \in DOMAIN peer_state \ {a} : peer_state'[b] = peer_state[b]

C7_Step ==
    \A a \in Addrs :
        (Applies(a) /\ msg[a].message_type \in ControlTypes) =>
            LET t   == msg[a].message_type
                old == peer_state[a]
                new == peer_state'[a]
                f   == IF t \in {"Choke", "Unchoke"}
                       THEN "am_choked" ELSE "interested"
            IN  /\ new[f] = (t \in {"Choke", "Interested"})
                /\ \A g \in Flags \ {f} : new[g] = old[g]
                /\ new.bitfield = old.bitfield
                /\ OthersUnchanged(a)

\* C7: Choke sets am_choked, Unchoke clears it, Interested sets interested,
\* NotInterested clears it; the peer's other flags, its bitfield and every
\* other peer's state stay as they were.
C7_ControlMessages == [][C7_Step]_vars

\* C7 witness: an Interested has been applied to one peer while another peer
\* is registered.
C7_Witness ==
    \E a, b \in DOMAIN peer_state :
        a # b /\ peer_state[a].interested /\ pc[a] = "pump"

\* bit n of a byte, bit 7 the high bit
BitSet(byte, n) == (byte \div (2 ^ n)) % 2 = 1

C8_Step ==
    \A a \in Addrs :
        (Applies(a) /\ msg[a].message_type = "Bitfield") =>
            LET p   == msg[a].payload
                old == peer_state[a]
                new == peer_state'[a]
            IN  /\ Len(new.bitfield) = 8 * Len(p)
                /\ \A i \in 0..(Len(p) - 1) : \A j \in 0..7 :
                      new.bitfield[8 * i + j + 1] = BitSet(p[i + 1], 7 - j)
                /\ \A g \in Flags : new[g] = old[g]

\* C8: a Bitfield message replaces the bitfield by 8 bits per payload byte,
\* element 8*i + j being bit 7 - j of byte i; the flags stay as they were.
C8_Bitfield == [][C8_Step]_vars

\* C8 witness: the payload A0 01 has been applied: pieces 0, 2 and 15 of 16.
C8_Witness ==
    \E a \in DOMAIN peer_state :
        LET bf == peer_state[a].bitfield
        IN  /\ Len(bf) = 16
            /\ {k \in 1..16 : bf[k]} = {1, 3, 16}

C9_Step ==
    \A a \in Addrs :
        (/\ Applies(a)
         /\ msg[a].message_type = "Have"
         /\ Len(msg[a].payload) >= 4
         /\ ReadU32(msg[a].payload) < Len(peer_state[a].bitfield)) =>
            LET index == ReadU32(msg[a].payload)
                old   == peer_state[a]
                new   == peer_state'[a]
            IN  /\ Len(new.bitfield) = Len(old.bitfield)
                /\ new.bitfield[index + 1]
                /\ \A k \in 1..Len(old.bitfield) :
                      k # index + 1 => new.bitfield[k] = old.bitfield[k]
                /\ \A g \in Flags : new[g] = old[g]
                /\ OthersUnchanged(a)

\* C9: Have(index) with index below the length of the bitfield sets that one
\* bit and changes nothing else, of this peer or of any other.
C9_Have == [][C9_Step]_vars

\* C9 witness: piece 1, absent from both bitfield payloads, is set.
C9_Witness ==
    \E a \in DOMAIN peer_state :
        Len(peer_state[a].bitfield) >= 2 /\ peer_state[a].bitfield[2]

\* C10: a Request or a Port is ignored: the peer state is unchanged and the
\* session goes back to reading frames.
C10_RequestPortIgnored ==
    [][\A a \in Addrs :
          (Applies(a) /\ msg[a].message_type \in {"Request", "Port"})
              => (peer_state' = peer_state /\ pc'[a] = "pump")]_vars

C11_Step ==
    \A a \in Addrs :
        /\ (a \notin DOMAIN peer_state /\ a \in DOMAIN peer_state')
              => /\ peer_state'[a] =
                      [choked |-> TRUE, interested |-> FALSE,
                       am_choked |-> TRUE, am_interested |-> FALSE,
                       bitfield |-> <<>>]
                 /\ pc[a] = "new_ch"
        /\ (/\ a \in DOMAIN peer_state /\ a \in DOMAIN peer_state'
            /\ peer_state'[a] # peer_state[a])
              => (Applies(a) /\ msg[a] # NoMsg)

\* C11: a peer is registered with choked and am_choked true, interested and
\* am_interested false and an empty bitfield, and its state changes only in
\* the step that applies an inbound message of that peer.
C11_DefaultUntilMessage == [][C11_Step]_vars

\* C11 witness: a registered peer still has the state it was registered with
\* while its first message, an Unchoke, waits to be applied, and another peer
\* is registered.
C11_Witness ==
    \E a, b \in DOMAIN peer_state :
        /\ a # b
        /\ pc[a] = "hm_wait" /\ msg[a].message_type = "Unchoke"
        /\ peer_state[a].choked /\ peer_state[a].am_choked
        /\ ~peer_state[a].interested /\ ~peer_state[a].am_interested
        /\ peer_state[a].bitfield = <<>>

\* The k-th address of the packed peer list of an announce datagram d
PeerAt(d, k) ==
    LET o == ANNOUNCE_HEADER_SIZE + 6 * (k - 1)
    IN  [ip |-> <<d[o + 1], d[o + 2], d[o + 3], d[o + 4]>>,
         port |-> d[o + 5] * 256 + d[o + 6]]

\* The addresses an announce datagram d lists, in order
DatagramPeers(d) ==
    [k \in 1..((Len(d) - ANNOUNCE_HEADER_SIZE) \div 6) |-> PeerAt(d, k)]

Range(seq) == {seq[i] : i \in DOMAIN seq}

\* An announce datagram shorter than its header, or with a peer list that is
\* not a multiple of 6 bytes long
Malformed(d) ==
    \/ Len(d) < ANNOUNCE_HEADER_SIZE
    \/ (Len(d) - ANNOUNCE_HEADER_SIZE) % 6 # 0

\* The announce of tracker t has taken a datagram from the tracker's address
AnnounceAnswered(t) == tpc[t] \in {"a_ok", "a_failed", "a_panicked"} /\ trecv[t] # <<>>

\* C12: a malformed announce response (shorter than 20 bytes, or with a peer
\* list that is not a multiple of 6 bytes) fails the announce of that tracker
\* only: the process keeps running.
C12_MalformedRejected ==
    \A t \in DOMAIN tpc :
        (AnnounceAnswered(t) /\ Malformed(trecv[t]))
            => (tpc[t] = "a_failed" /\ tphase # "panicked")

C13_Step ==
    \A t \in DOMAIN tpc :
        /\ (Waiting(t) /\ taliens'[t] = taliens[t] + 1)
              => /\ tpc' = tpc
                 /\ telapsed' = telapsed
                 /\ tphase' = tphase
                 /\ <<resolved, connections, aresolved, announced>>' =
                        <<resolved, connections, aresolved, announced>>
                 /\ trecv' = trecv
        /\ (tpc'[t] = tpc[t] /\ tphase' = tphase)
              => telapsed'[t] \in {telapsed[t], telapsed[t] + 1}

C13_Inv ==
    /\ \A i \in DOMAIN resolved :
          resolved[i].connection_id # AlienConnectionId
    /\ \A i \in DOMAIN connections :
          connections[i].connection_id # AlienConnectionId
    /\ \A i \in DOMAIN aresolved : AlienPeer \notin Range(aresolved[i])
    /\ AlienPeer \notin Range(announced)
    /\ \A t \in DOMAIN tpc : telapsed[t] <= TimeoutSecs

\* C13: a datagram from another address than the tracker's is discarded: it
\* does not complete the connect or the announce, supplies neither a
\* connection_id nor peers, and leaves the 3 seconds of the timeout running.
C13_AlienDiscarded == []C13_Inv /\ [][C13_Step]_vars

\* C13 witness: an announce discarded a response listing the alien peer,
\* which is still in its buffer, and two of its three seconds have passed.
C13_Witness ==
    \E t \in DOMAIN tpc :
        /\ tpc[t] = "a_wait"
        /\ taliens[t] = 1
        /\ tbuf[t] = AnnounceResponseBytes(ttx[t],
                                           <<AlienPeer, AlienPeer, AlienPeer>>)
        /\ telapsed[t] = 2

\* The result Trackers::new collected for tracker t
ResolvedOf(t) ==
    CHOOSE r \in Range(resolved) : r.addr = t

\* C14: a connect gives a connection_id only on a 16-byte datagram from the
\* tracker that carries the transaction_id of the request, the id is bytes
\* 8..16 of that datagram and is the one the announce sends; a datagram of
\* another size or with another transaction_id fails the tracker.
C14_ConnectionId ==
    \A t \in DOMAIN tpc :
        /\ (tphase = "new" /\ tpc[t] = "connected")
              => /\ Len(trecv[t]) = CONNECT_RESPONSE_SIZE
                 /\ SubSeq(trecv[t], 5, 8) = PutU32(ttx[t])
                 /\ WriteI64(ResolvedOf(t).connection_id)
                        = SubSeq(trecv[t], 9, 16)
        /\ (tphase = "new" /\ trecv[t] # <<>>
              /\ (\/ Len(trecv[t]) # CONNECT_RESPONSE_SIZE
                  \/ SubSeq(trecv[t], 5, 8) # PutU32(ttx[t])))
              => tpc[t] = "c_failed"
        /\ (Len(tout[t]) = 2)
              => Take(tout[t][2], 8) = WriteI64(ResolvedOf(t).connection_id)

\* The requests of each kind sent to tracker t
ConnectRequestsSent(t) ==
    Cardinality({i \in DOMAIN tout[t] : Len(tout[t][i]) = CONNECT_REQUEST_SIZE})

AnnounceRequestsSent(t) ==
    Cardinality({i \in DOMAIN tout[t] : Len(tout[t][i]) = ANNOUNCE_REQUEST_BYTES})

C15_Inv ==
    \A t \in DOMAIN tpc :
        /\ ConnectRequestsSent(t) <= 1
        /\ AnnounceRequestsSent(t) <= 1
        /\ ConnectRequestsSent(t) + AnnounceRequestsSent(t) = Len(tout[t])
        /\ tpc[t] \in {"c_wait", "connected"} => ConnectRequestsSent(t) = 1
        /\ tpc[t] \in {"a_wait", "a_ok"} => AnnounceRequestsSent(t) = 1
        /\ (tphase = "new" /\ tpc[t] = "connected") => trecv[t] # <<>>
        /\ tpc[t] = "a_ok" => trecv[t] # <<>>

C15_Step ==
    \A t \in DOMAIN tpc :
        /\ Waiting(t) => tout'[t] = tout[t]
        /\ (Waiting(t) /\ tpc'[t] # tpc[t] /\ trecv'[t] = <<>>)
              => /\ telapsed[t] = TimeoutSecs
                 /\ tpc'[t] = (IF tpc[t] = "c_wait" THEN "c_failed"
                               ELSE "a_failed")

\* C15: an operation that gets no datagram from the tracker's address ends
\* only when its 3 seconds are over, and then fails; an operation sends one
\* request datagram and sends nothing while it waits.
C15_TimeoutNoRetry == []C15_Inv /\ [][C15_Step]_vars

\* C15 witness: an announce failed after 3 seconds in which only a datagram
\* from another address came; the tracker was sent one connect and one
\* announce request.
C15_Witness ==
    \E t \in DOMAIN tpc :
        /\ tpc[t] = "a_failed"
        /\ telapsed[t] = TimeoutSecs
        /\ trecv[t] = <<>>
        /\ taliens[t] = 1
        /\ Len(tout[t]) = 2

\* The addresses in the responses of the trackers whose announce succeeded
SuccessfulPeers ==
    UNION {Range(DatagramPeers(trecv[t])) :
              t \in {u \in DOMAIN tpc : tpc[u] = "a_ok"}}

\* C16: the list Trackers::announce returns holds no address twice, and holds
\* the addresses that are in the response of at least one tracker whose
\* announce succeeded, in whatever order the responses came.
C16_Deduplicated ==
    tphase = "returned" =>
        /\ \A i, j \in DOMAIN announced :
              announced[i] = announced[j] => i = j
        /\ Range(announced) = SuccessfulPeers

\* C16 witness: the second tracker answered first with Peer2, Peer3, Peer2,
\* then the first with Peer1, Peer2; three addresses are returned.
C16_Witness ==
    /\ tphase = "returned"
    /\ aresolved = <<<<Peer2, Peer3, Peer2>>, <<Peer1, Peer2>>>>
    /\ announced = <<Peer2, Peer3, Peer1>>

\* C17: a tracker whose connect failed is not in Trackers.connections and is
\* sent no announce; a tracker whose announce failed adds no peers; the peers
\* of the other trackers are returned all the same, and with no successful
\* tracker the result is the empty list. No such failure stops the process.
C17_FailuresDropped ==
    /\ \A t \in DOMAIN tpc :
          /\ InConnections(t) =>
                (\E r \in Range(resolved) : r.addr = t /\ r.res = "ok")
          /\ tpc[t] = "c_failed" =>
                (~InConnections(t) /\ AnnounceRequestsSent(t) = 0)
    /\ tphase = "returned" =>
          /\ \A t \in DOMAIN tpc :
                tpc[t] = "a_ok" =>
                    Range(DatagramPeers(trecv[t])) \subseteq Range(announced)
          /\ \A p \in Range(announced) :
                \E t \in DOMAIN tpc :
                    tpc[t] = "a_ok" /\ p \in Range(DatagramPeers(trecv[t]))
          /\ (\A t \in DOMAIN tpc : tpc[t] # "a_ok") => announced = <<>>
    /\ tphase = "panicked" =>
          (\E t \in DOMAIN tpc :
              tpc[t] = "a_panicked" /\ Malformed(trecv[t]))

\* C17 witness: the connect of one tracker failed, the announce of another
\* timed out, and the peers of the third were returned.
C17_Witness ==
    /\ tphase = "returned"
    /\ announced # <<>>
    /\ \E t, u, v \in DOMAIN tpc :
          /\ tpc[t] = "c_failed"
          /\ tpc[u] = "a_failed" /\ telapsed[u] = TimeoutSecs
          /\ tpc[v] = "a_ok"

C18_Step ==
    \A t \in DOMAIN tpc :
        (tpc[t] = "a_wait" /\ tpc'[t] = "a_ok") =>
            LET d == trecv'[t]
                n == (Len(d) - ANNOUNCE_HEADER_SIZE) \div 6
                peers == aresolved'[Len(aresolved')]
            IN  /\ Len(aresolved') = Len(aresolved) + 1
                /\ Len(peers) = n
                /\ \A k \in 1..n : peers[k] = PeerAt(d, k)

\* C18: from_bytes turns the k-th group of 6 bytes after the 20-byte header
\* into the k-th peer, the IPv4 address from its first 4 bytes and the port
\* from its last 2, big-endian; there are (length - 20) / 6 peers.
C18_PeerParsing == [][C18_Step]_vars

\* C18 witness: a response ending 0A 00 00 01 1A E1 0A 00 00 02 1A E2 gave
\* 10.0.0.1:6881 and 10.0.0.2:6882.
C18_Witness ==
    \E t \in DOMAIN tpc :
        /\ tpc[t] = "a_ok"
        /\ SubSeq(trecv[t], 21, Len(trecv[t]))
              = <<10, 0, 0, 1, 26, 225, 10, 0, 0, 2, 26, 226>>
        /\ \E i \in DOMAIN aresolved :
              aresolved[i] = <<[ip |-> <<10, 0, 0, 1>>, port |-> 6881],
                               [ip |-> <<10, 0, 0, 2>>, port |-> 6882]>>

\* C19: PeerCodec::decode on the encoding of a handshake with pstr
\* "BitTorrent protocol" returns a Handshake frame with the same pstr,
\* info_hash and peer_id.
C19_HandshakeRoundTrip ==
    \A h \in CodecHandshakes \cup SingleHandshakes :
        clast.before = PeerCodecEncode(h) =>
            /\ clast.res = "some"
            /\ clast.frame.kind = "Handshake"
            /\ clast.frame.pstr = h.pstr
            /\ clast.frame.info_hash = h.info_hash
            /\ clast.frame.peer_id = h.peer_id

\* C19 witness: the handshake with info_hash 1, 2, .., 20 and the local
\* peer id was encoded, delivered whole and decoded.
C19_Witness ==
    /\ cin = <<HandshakeFrame(BITTORRENT_PROTOCOL, Ramp(HashLen), LocalPeerId)>>
    /\ clast.before = PeerCodecEncode(cin[1])
    /\ Len(clast.before) = HandshakeLen
    /\ cout = cin

\* C20: PeerCodec::decode on the complete encoding of a data frame with an
\* id in 0..9 and a payload of any length returns a Data frame with the same
\* message_id and payload and leaves the buffer empty.
C20_DataRoundTrip ==
    \A f \in CodecDataFrames \cup SingleDataFrames :
        clast.before = DataEncode(f) =>
            /\ clast.res = "some"
            /\ clast.frame.kind = "Data"
            /\ clast.frame.message_id = f.message_id
            /\ clast.frame.payload = f.payload
            /\ clast.after = <<>>

\* C20 witness: the frame with id 9 and the longest payload has been decoded
\* from its complete encoding.
C20_Witness ==
    /\ cin = <<DataFrame(9, Ramp(MaxPayloadLen))>>
    /\ clast.before = DataEncode(cin[1])
    /\ cout = cin
    /\ cbuf = <<>>

\* C21: the encodings of any two frames, concatenated and appended to the
\* buffer one byte at a time with PeerCodec::decode called after each byte,
\* yield exactly the two frames in order: no error, no other frame, and both
\* frames once the last byte has been decoded.
C21_ByteByByte ==
    (Len(cin) = 2 /\ cbytewise) =>
        /\ cphase # "failed"
        /\ Len(cout) <= 2
        /\ cout = Take(cin, Len(cout))
        /\ (cstream = <<>> /\ cphase = "read") => cout = cin

\* C22: on the first 67 bytes of a valid handshake PeerCodec::decode returns
\* incomplete and leaves the buffer unchanged; on a buffer that starts with
\* the 68 bytes it returns one Handshake frame whose info_hash is bytes
\* 28..48 and whose peer_id is bytes 48..68, and consumes exactly 68 bytes.
C22_HandshakeBoundary ==
    \A h \in CodecHandshakes \cup SingleHandshakes :
        LET e == PeerCodecEncode(h)
        IN  /\ clast.before = Take(e, HandshakeLen - 1) =>
                  /\ clast.res = "none"
                  /\ clast.after = clast.before
            /\ (Len(clast.before) >= HandshakeLen
                    /\ Take(clast.before, HandshakeLen) = e) =>
                  /\ clast.res = "some"
                  /\ clast.frame.kind = "Handshake"
                  /\ clast.frame.info_hash = SubSeq(clast.before, 29, 48)
                  /\ clast.frame.peer_id = SubSeq(clast.before, 49, 68)
                  /\ clast.after = Drop(clast.before, 68)

\* C22 witness: a handshake arrived one byte at a time, so decode was called
\* on its first 67 bytes, and the call on all 68 bytes returned the frame.
C22_Witness ==
    /\ cbytewise
    /\ cin = <<HandshakeFrame(BITTORRENT_PROTOCOL, OtherInfoHash, RemotePeerId)>>
    /\ Len(clast.before) = HandshakeLen
    /\ clast.res = "some"
    /\ cout = cin

\* The synthetic Cancel of this session
SyntheticCancel == PeerConnectionMessage("Cancel", <<>>, conn_addr)

\* The positions of inbox that hold a Cancel in state q of the channel
Cancels(q) == {i \in DOMAIN q : q[i].message_type = "Cancel"}

\* try_read is about to report an error or end of stream
ReadFails == ReadOutcome(net_state, net_in, read_len) \in {"err", "zero"}

C23_Step ==
    /\ (conn_pc = "read" /\ conn_pc' # "read" /\ ReadFails) =>
          /\ inbox' = Append(inbox, SyntheticCancel)
          /\ Cardinality(Cancels(inbox')) = 1
          /\ conn_pc' = "exited"
          /\ net_out' = net_out
    /\ conn_pc = "exited" =>
          /\ conn_pc' = "exited"
          /\ inbox' = inbox
          /\ net_out' = net_out

\* C23: when try_read in handle_messages reports end of stream or an error,
\* the session sends exactly one Cancel with an empty payload and its own
\* address on the coordinator channel, behind every message it forwarded
\* before, and exits; after that it sends and writes nothing.
C23_EofCancel == [][C23_Step]_vars

\* C23 witness: the session forwarded an Unchoke, the remote closed the
\* connection, and the session left with the Cancel behind the Unchoke.
C23_Witness ==
    /\ conn_pc = "exited"
    /\ conn_ret = "disconnected"
    /\ net_state = "eof"
    /\ inbox = <<PeerConnectionMessage("Unchoke", <<>>, conn_addr),
                 SyntheticCancel>>

\* C24: however handle_messages ends (end of stream or error on read, a
\* Handshake frame among the frames, a failed write, the outbound channel
\* closed), the last message it sent to the coordinator is the synthetic
\* Cancel.
C24_EveryExitCancels ==
    conn_pc = "exited" =>
        /\ inbox # <<>>
        /\ inbox[Len(inbox)] = SyntheticCancel

\* The remote keeps to the protocol: one handshake, first, then data frames.
RemoteObeys ==
    \A i \in DOMAIN rframes :
        (rframes[i].kind = "Handshake") <=> (i = 1)

\* The frames the remote has sent whole
WholeFrames ==
    IF rpending = <<>> THEN rframes ELSE Take(rframes, Len(rframes) - 1)

RECURSIVE DataMessages(_, _)
\* The messages of the Data frames among frames
DataMessages(frames, addr) ==
    IF frames = <<>> THEN <<>>
    ELSE IF Head(frames).kind # "Data" THEN DataMessages(Tail(frames), addr)
    ELSE <<PeerConnectionMessage(FromU8(Head(frames).message_id),
                                 Head(frames).payload, addr)>>
            \o DataMessages(Tail(frames), addr)

IsForwarded(m) == m.message_type # "Cancel"

\* The session has read all the remote sent and waits for more
ConnQuiet ==
    /\ conn_pc = "read"
    /\ ~ready
    /\ net_in = <<>>
    /\ rpending = <<>>

\* C25: the messages the session sent to the coordinator are the Data frames
\* of the byte stream it received, in their order: never one that the stream
\* does not hold at that place, and all of them once the session has read
\* everything the remote sent, however the stream was cut into reads.
C25_InOrder ==
    LET want == DataMessages(WholeFrames, conn_addr)
        got  == SelectSeq(inbox, IsForwarded)
    IN  (RemoteObeys /\ ~ConnEnded) =>
            /\ Len(got) <= Len(want)
            /\ got = Take(want, Len(got))
            /\ ConnQuiet => got = want

RECURSIVE MessagesToBytes(_)
\* The Data frames of the messages, one after the other
MessagesToBytes(ms) ==
    IF ms = <<>> THEN <<>>
    ELSE PeerFrameToBytes(DataFrame(RawValue(Head(ms).message_type),
                                    Head(ms).payload))
            \o MessagesToBytes(Tail(ms))

\* The messages the session has taken from the outbound channel
OutTaken == Len(out_sent) - Len(outbox)

\* C26: what the session wrote to the socket after its handshake is the
\* frames of the first messages sent on the outbound channel, in the order
\* they were sent, each once and whole; the channel holds the others.
C26_OutboundOrder ==
    conn_pc \notin {"idle", "start"} =>
        /\ outbox = Drop(out_sent, OutTaken)
        /\ \E j \in {OutTaken - 1, OutTaken} :
              /\ j >= 0
              /\ net_out = PeerFrameToBytes(LocalHandshake)
                              \o MessagesToBytes(Take(out_sent, j))

\* C26 witness: Interested and then Request were sent on the channel and
\* both frames are on the wire.
C26_Witness ==
    /\ Len(out_sent) = 2
    /\ out_sent[1].message_type = "Interested"
    /\ out_sent[2].message_type = "Request"
    /\ outbox = <<>>
    /\ net_out = PeerFrameToBytes(LocalHandshake) \o MessagesToBytes(out_sent)

\* handle_messages is running
InPump == conn_pc \in {"read", "recv"}

\* C28: a message placed on the outbound channel while handle_messages runs
\* is eventually taken and written to the socket, unless the session ends,
\* whether or not the remote sends anything more.
C28_OutboundDelivered ==
    \A k \in 1..MaxOutbound :
        (InPump /\ Len(out_sent) >= k) ~> (ConnEnded \/ OutTaken >= k)

\* C29: once the coordinator has dropped the sender of the outbound channel
\* while handle_messages runs, the session eventually ends, whether or not
\* the remote sends anything more.
C29_DropTerminates == (InPump /\ ~tx_alive) ~> ConnEnded

\* C27: a message sent on the sender stored in peer_channels for a peer is
\* eventually written to that peer's socket as a frame, unless the session
\* ends first.
C27_SendReachesSocket ==
    \A a \in Addrs :
        (chan[a] # <<>> /\ rx_alive[a])
            ~> (~rx_alive[a]
                \/ Len(wire[a]) > Len(HandshakeEncode(LocalHandshake)))

\* The session of a has taken an Unchoke from the stream, after a Bitfield
\* that marks piece 0
UnchokeAfterBitfield(a) ==
    /\ pc[a] \in {"hm_wait", "hm_locked"}
    /\ msg[a].message_type = "Unchoke"
    /\ a \in DOMAIN peer_state
    /\ peer_state[a].bitfield # <<>>
    /\ peer_state[a].bitfield[1]

\* Interested, and behind it Request(0, 0, 16384), are on the channel of a
InterestedThenRequest(a) ==
    \E i, j \in DOMAIN chan[a] :
        /\ i < j
        /\ chan[a][i] = PeerMessage("Interested", <<>>)
        /\ chan[a][j] = PeerMessage("Request",
                                    PutU32(0) \o PutU32(0) \o PutU32(16384))

\* C30: after a peer has sent a Bitfield that marks piece 0 and then an
\* Unchoke, Interested followed by Request(index 0, begin 0, length 16384) is
\* sent on that peer's channel and its am_interested becomes true, unless the
\* session ends first.
C30_InterestedAndRequest ==
    \A a \in Addrs :
        UnchokeAfterBitfield(a)
            ~> (\/ Ended(a)
                \/ /\ a \in DOMAIN peer_state
                   /\ peer_state[a].am_interested
                   /\ InterestedThenRequest(a))

\* The frames conn.read() of connect is about to return
FirstReadFrames ==
    AfterRead(read_buf, read_len, Take(net_in, Min(Len(net_in), read_len))).frames

\* The first frame of frames is a handshake for the torrent
LeadsWithHandshake(frames) ==
    /\ frames # <<>>
    /\ Head(frames).kind = "Handshake"
    /\ Head(frames).info_hash = LocalInfoHash

C31_Step ==
    (conn_pc = "first_read" /\ conn_pc' # "first_read") =>
        \/ /\ ReadOutcome(net_state, net_in, read_len) = "data"
           /\ LeadsWithHandshake(FirstReadFrames)
        \/ /\ conn_pc' = "failed"
           /\ inbox' = inbox

\* C31: PeerConnection::connect returns Ok, and sends Data messages on the
\* coordinator channel, only when the first frame of its read is a Handshake
\* with the local info_hash; when the first frame is not a handshake, or the
\* read gave no frame, it fails and sends nothing.
C31_HandshakeFirst == [][C31_Step]_vars

\* The 68 bytes of the handshakes the remote may send
ConnHandshakeBytes ==
    {PeerFrameToBytes(f) : f \in {g \in ConnRemoteFrames : g.kind = "Handshake"}}

\* C32: PeerFrame::from_bytes on read_buf[..r_cur] holding exactly the 68
\* bytes of a valid handshake returns one Handshake frame of size 68, and on
\* the first 67 bytes of one it returns no frame.
C32_HandshakeAt68 ==
    \A e \in ConnHandshakeBytes :
        LET p == PeerFrameFromBytes(read_buf)
        IN  /\ read_buf = e =>
                  /\ p.ok
                  /\ p.frame.kind = "Handshake"
                  /\ p.size = 68
            /\ read_buf = Take(e, 67) => ~p.ok

RECURSIVE FramesToBytes(_)
\* The bytes of the frames, one after the other
FramesToBytes(frames) ==
    IF frames = <<>> THEN <<>>
    ELSE PeerFrameToBytes(Head(frames)) \o FramesToBytes(Tail(frames))

\* The bytes the session has read from the socket so far, in arrival order
ConnReceived ==
    LET all == FramesToBytes(rframes)
    IN  Take(all, Len(all) - Len(rpending) - Len(net_in))

\* C38: in TcpConnection::read and try_read r_cur never exceeds
\* read_buf.len(), read_buf is never empty, and read_buf[..r_cur] is the
\* bytes received and not yet taken by a parsed frame, in arrival order: the
\* tail of what was received.
C38_BufferHoldsUnconsumed ==
    conn_pc \notin {"idle", "start"} =>
        /\ r_cur <= read_len
        /\ read_len > 0
        /\ conn_pc # "panicked" =>
              /\ r_cur = Len(read_buf)
              /\ r_cur <= Len(ConnReceived)
              /\ read_buf = Drop(ConnReceived, Len(ConnReceived) - r_cur)

RECURSIVE MockFrames(_)
\* The frames the bytes encode, up to the first that does not decode
MockFrames(bytes) ==
    LET d == MockDecode(bytes)
    IN  IF d.res = "some" THEN <<d.frame>> \o MockFrames(d.buf) ELSE <<>>

\* C33: the Framed stream of codec.rs yields the frames encoded in the
\* transport's bytes in order, none skipped or repeated, and, however the
\* transport splits the bytes across reads, it has yielded every whole frame
\* when it ends at the end of the transport or at a decode error.
C33_FramedYieldsAll ==
    LET want == MockFrames(framed_bytes)
    IN  /\ Len(framed_out) <= Len(want)
        /\ framed_out = Take(want, Len(framed_out))
        /\ (framed_pc = "ended" /\ framed_end # "io") => framed_out = want

\* The frame the pump of a took last is a Handshake
HandshakeInPump(a) ==
    /\ consumed[a] # <<>>
    /\ PeerCodecDecode(consumed[a]).res = "some"
    /\ PeerCodecDecode(consumed[a]).frame.kind = "Handshake"

MainReturned == main_pc = "returned"

\* C35: once every session main spawned has ended, the status loop of main
\* ends too and main returns.
C35_MainTerminates ==
    (main_pc # "spawn" /\ \A a \in Addrs : Ended(a)) ~> MainReturned

\* The positions where a session waits for the network: the connect, the
\* send of the handshake, and the two framed.next()
NetworkWaits == {"start", "hs_locked", "await_hs", "pump"}

\* The positions where a session waits for the lock
LockWaits == {"connected", "new_wait", "hm_wait", "cl_wait"}

C37_OneSessionPerAddr ==
    /\ \A i, j \in DOMAIN sp_tasks :
          sp_tasks[i].addr = sp_tasks[j].addr => i = j
    /\ \A i \in DOMAIN sp_tasks :
          sp_tasks[i].pc = "registered" =>
              /\ sp_tasks[i].addr \in DOMAIN sp_registry
              /\ sp_registry[sp_tasks[i].addr] = i

\* C37 witness: the responses named an address more than once, every task
\* is spawned, one task has ended with its entry removed and another is
\* still registered.
C37_Witness ==
    /\ sp_pc = "run"
    /\ Len(Flatten(sp_resolved)) > Len(sp_peers)
    /\ \E i, j \in DOMAIN sp_tasks :
          /\ sp_tasks[i].pc = "ended"
          /\ sp_tasks[i].addr \notin DOMAIN sp_registry
          /\ sp_tasks[j].pc = "registered"
          /\ sp_registry[sp_tasks[j].addr] = j

====
